---- MODULE Spec2Model ----
(***************************************************************************)
(* Model of the merge engine of bucket (bucket/rw): the in-memory          *)
(* MergeReadout, the direct SQLite driver merge_sql_direct and the archive *)
(* driver merge_archive_direct, over readouts of two coverage definitions. *)
(*                                                                         *)
(* Rows keep the 0-based `start` offsets of the Python tuples; a table is a *)
(* sequence whose element at position start + 1 is the row with that start.*)
(***************************************************************************)
EXTENDS Integers, Sequences, FiniteSets, TLC

(***************************************************************************)
(* Bounds.                                                                 *)
(***************************************************************************)
\* most samples one run takes: the hit counts of a sampled readout add up
\* to at most this
MaxSamples == 1
\* longest list of input files / readouts handed to one merge
MaxInputs == 4
\* most axes of a coverpoint, most values of an axis
MaxAxes == 3
MaxAxisSize == 3
\* the records written to one archive
MaxWrites == 3
\* the nodes (groups and points) of a generated coverage tree
MaxNodes == 5
\* files handed to merge_files, records written to one of them
MaxFiles == 3
MaxRecords == 2

(***************************************************************************)
(* Small helpers.                                                          *)
(***************************************************************************)
Min(a, b) == IF a <= b THEN a ELSE b
Max(a, b) == IF a >= b THEN a ELSE b
\* None, where a string is expected
NoneVal == "None"
\* a source label is a sequence of text pieces: "" is <<>>, None is NoSource,
\* f"batch_{k}" is <<"batch_", ToString(k)>>
NoSource == <<"None">>
\* a path at which no file exists
NoFile == [exists |-> FALSE, definition |-> <<>>, run |-> <<>>]
NoArchive == [exists |-> FALSE, definition |-> <<>>, record |-> <<>>]

RECURSIVE SumSeq(_)
SumSeq(s) == IF s = <<>> THEN 0 ELSE Head(s) + SumSeq(Tail(s))

(***************************************************************************)
(* The coverage definitions the readouts are sampled against.  A           *)
(* definition fingerprint identifies its tables: GeneratedReadout derives  *)
(* both from the same seed and parameters.                                 *)
(*   dA: a group of two leaf points with one bucket each; bucket 0 has the *)
(*       numeric goal (target 2), bucket 1 the ignored goal (target 0).    *)
(*   dB: a single root point with one bucket whose goal is illegal (-1).   *)
(***************************************************************************)
\* the (definition, context) fingerprint pairs of the sampled readouts
Fingerprints == { <<"dA", "rA">>, <<"dA", "rB">>, <<"dB", "rA">> }

iter_goals(def_sha) ==
    IF def_sha = "dA"
    THEN << [start |-> 0, target |-> 0], [start |-> 1, target |-> 2] >>
    ELSE << [start |-> 0, target |-> 10], [start |-> 1, target |-> -1] >>

iter_bucket_goals(def_sha) ==
    IF def_sha = "dA"
    THEN << [start |-> 0, goal |-> 1], [start |-> 1, goal |-> 0] >>
    ELSE << [start |-> 0, goal |-> 1] >>

iter_points(def_sha) ==
    IF def_sha = "dA"
    THEN << [start |-> 0, depth |-> 0, end |-> 3, bucket_start |-> 0,
             bucket_end |-> 2, target |-> 2, target_buckets |-> 1],
            [start |-> 0, depth |-> 1, end |-> 1, bucket_start |-> 0,
             bucket_end |-> 1, target |-> 2, target_buckets |-> 1],
            [start |-> 1, depth |-> 1, end |-> 2, bucket_start |-> 1,
             bucket_end |-> 2, target |-> 0, target_buckets |-> 0] >>
    ELSE << [start |-> 0, depth |-> 0, end |-> 1, bucket_start |-> 0,
             bucket_end |-> 1, target |-> 0, target_buckets |-> 0] >>

NumBuckets(def_sha) == Len(iter_bucket_goals(def_sha))

\* the readouts a sampling run can produce: fingerprints and one hit count
\* per bucket of the definition
Readouts ==
    UNION { { [def_sha |-> f[1], rec_sha |-> f[2], bucket_hits |-> h] :
                h \in { g \in [1..NumBuckets(f[1]) -> 0..MaxSamples] :
                          SumSeq(g) <= MaxSamples } } :
            f \in Fingerprints }

(***************************************************************************)
(* Point roll-up of a sampled readout (GeneratedReadout._generate_point,   *)
(* _generate_group): the stored point_hit rows of an input.                *)
(***************************************************************************)
RECURSIVE GeneratedRollup(_, _, _, _)
GeneratedRollup(targets, hits, lo, hi) ==
    IF lo >= hi THEN [hits |-> 0, hit_buckets |-> 0, full_buckets |-> 0]
    ELSE LET rest == GeneratedRollup(targets, hits, lo + 1, hi)
             t == targets[lo + 1]
             h == hits[lo + 1]
         IN  IF t > 0 /\ h > 0
             THEN [hits |-> rest.hits + Min(t, h),
                   hit_buckets |-> rest.hit_buckets + 1,
                   full_buckets |-> rest.full_buckets + (IF h >= t THEN 1 ELSE 0)]
             ELSE rest

(***************************************************************************)
(* In-memory merge engine: MergeReadout (bucket/rw/common.py).             *)
(* A MergeReadout is its master readout, its own bucket_hits list and the  *)
(* bucket_targets list it resolves once from the master's goal tables.     *)
(***************************************************************************)
\* goal_targets[bucket_goal.goal] for every bucket-goal row of the master
bucket_targets(def_sha) ==
    LET goal_targets == [g \in 1..Len(iter_goals(def_sha)) |->
                            iter_goals(def_sha)[g].target]
    IN  [b \in 1..Len(iter_bucket_goals(def_sha)) |->
            goal_targets[iter_bucket_goals(def_sha)[b].goal + 1]]

\* faulty variant of __init__ below: the list starts at zero, the master's
\* own hits are left out
MergeReadout_newZeroed(master) ==
    [master |-> master,
     bucket_hits |-> [i \in 1..Len(master.bucket_hits) |-> 0],
     bucket_targets |-> bucket_targets(master.def_sha)]

\* __init__ up to, not including, the trailing merge(*others)
MergeReadout_new(master) ==
    [master |-> master,
     bucket_hits |-> [i \in 1..Len(master.bucket_hits) |-> master.bucket_hits[i]],
     bucket_targets |-> bucket_targets(master.def_sha)]

\* faulty variant of the addition below: `=` written for `+=`
AddBucketHitsAssign(own, other) ==
    [i \in 1..Len(own) |-> IF i <= Len(other) THEN other[i] ELSE own[i]]

\* self.bucket_hits[bucket_hit.start] += bucket_hit.hits, for every row of
\* the readout
AddBucketHits(own, other) ==
    [i \in 1..Len(own) |-> IF i <= Len(other) THEN own[i] + other[i] ELSE own[i]]

\* faulty variant of merge below: only the definition fingerprint is compared
RECURSIVE MergeReadout_mergeDefOnly(_, _)
MergeReadout_mergeDefOnly(m, readouts) ==
    IF readouts = <<>> THEN [obj |-> m, raised |-> FALSE]
    ELSE LET readout == Head(readouts) IN
         IF readout.def_sha # m.master.def_sha
         THEN [obj |-> m, raised |-> TRUE]
         ELSE MergeReadout_mergeDefOnly(
                [m EXCEPT !.bucket_hits = AddBucketHits(@, readout.bucket_hits)],
                Tail(readouts))

\* merge(*readouts): the readouts are checked and added one after the
\* other; the first incompatible one raises RuntimeError and ends the loop.
RECURSIVE MergeReadout_merge(_, _)
MergeReadout_merge(m, readouts) ==
    IF readouts = <<>> THEN [obj |-> m, raised |-> FALSE]
    ELSE LET readout == Head(readouts) IN
         IF readout.def_sha # m.master.def_sha
         THEN [obj |-> m, raised |-> TRUE]
         ELSE IF readout.rec_sha # m.master.rec_sha
         THEN [obj |-> m, raised |-> TRUE]
         ELSE MergeReadout_merge(
                [m EXCEPT !.bucket_hits = AddBucketHits(@, readout.bucket_hits)],
                Tail(readouts))

\* MergeReadout(master, *others): an exception leaves no object behind
\* (live is FALSE and obj is what the constructor was working on)
MergeReadout_init(master, others) ==
    LET r == MergeReadout_merge(MergeReadout_new(master), others)
    IN  [obj |-> r.obj, raised |-> r.raised, live |-> ~r.raised]

\* faulty variant of the loop below: the raw count is added to hits
RECURSIVE PointHitLoopUncapped(_, _, _, _, _)
PointHitLoopUncapped(hits_list, targets, lo, hi, acc) ==
    IF lo >= hi \/ lo >= Len(hits_list) THEN acc
    ELSE LET target == targets[lo + 1]
             raw == hits_list[lo + 1]
             bucket_hits == Min(raw, target)
             next ==
               IF target > 0
               THEN IF raw > 0
                    THEN [hits |-> acc.hits + raw,
                          hit_buckets |-> acc.hit_buckets + 1,
                          full_buckets |-> acc.full_buckets +
                              (IF bucket_hits = target THEN 1 ELSE 0)]
                    ELSE acc
               ELSE acc
         IN  PointHitLoopUncapped(hits_list, targets, lo + 1, hi, next)

\* the loop body of iter_point_hits over one point's bucket range
RECURSIVE PointHitLoop(_, _, _, _, _)
PointHitLoop(hits_list, targets, lo, hi, acc) ==
    IF lo >= hi \/ lo >= Len(hits_list) THEN acc
    ELSE LET target == targets[lo + 1]
             raw == hits_list[lo + 1]
             bucket_hits == Min(raw, target)
             next ==
               IF target > 0
               THEN IF raw > 0
                    THEN [hits |-> acc.hits + bucket_hits,
                          hit_buckets |-> acc.hit_buckets + 1,
                          full_buckets |-> acc.full_buckets +
                              (IF bucket_hits = target THEN 1 ELSE 0)]
                    ELSE acc
               ELSE acc
         IN  PointHitLoop(hits_list, targets, lo + 1, hi, next)

\* iter_point_hits(): one row per point of the master, in point order
MergeReadout_iter_point_hits(m) ==
    LET points == iter_points(m.master.def_sha) IN
    [p \in 1..Len(points) |->
        LET acc == PointHitLoop(m.bucket_hits, m.bucket_targets,
                                points[p].bucket_start, points[p].bucket_end,
                                [hits |-> 0, hit_buckets |-> 0, full_buckets |-> 0])
        IN  [start |-> points[p].start, depth |-> points[p].depth,
             hits |-> acc.hits, hit_buckets |-> acc.hit_buckets,
             full_buckets |-> acc.full_buckets]]

\* iter_bucket_hits(): BucketHitTuple(start + offset, hits)
MergeReadout_iter_bucket_hits(m) ==
    [i \in 1..Len(m.bucket_hits) |-> [start |-> i - 1, hits |-> m.bucket_hits[i]]]

\* a MergeReadout seen through the Readout interface (get_def_sha,
\* get_rec_sha and iter_bucket_hits delegate to / replace the master's)
MergeReadout_as_readout(m) ==
    [def_sha |-> m.master.def_sha, rec_sha |-> m.master.rec_sha,
     bucket_hits |-> m.bucket_hits]

(***************************************************************************)
(* SQLite backend (bucket/rw/sql.py).  A database file is its definition   *)
(* rows and its run rows (primary keys are the 1-based positions); the     *)
(* bucket_hit and point_hit rows of a run are kept with the run.  The      *)
(* point, goal and bucket_goal rows of a definition row are those of its   *)
(* fingerprint.                                                            *)
(***************************************************************************)
\* what create_all leaves at a path: the tables, no rows
EmptyStore == [exists |-> TRUE, definition |-> <<>>, run |-> <<>>]
\* a directory at a path
Directory == [exists |-> TRUE, is_dir |-> TRUE, definition |-> <<>>, run |-> <<>>]
\* Path.is_file()
is_file(path) == path.exists /\ "is_dir" \notin DOMAIN path

\* the stored point_hit rows of a sampled readout
Readout_iter_point_hits(readout) ==
    LET points == iter_points(readout.def_sha) IN
    [p \in 1..Len(points) |->
        LET acc == GeneratedRollup(bucket_targets(readout.def_sha),
                                   readout.bucket_hits,
                                   points[p].bucket_start, points[p].bucket_end)
        IN  [start |-> points[p].start, depth |-> points[p].depth,
             hits |-> acc.hits, hit_buckets |-> acc.hit_buckets,
             full_buckets |-> acc.full_buckets]]

\* SQLWriter.write: a definition row and a run row are appended
SQLWriter_write(store, readout) ==
    LET base == IF store.exists THEN store ELSE EmptyStore
        def_ref == Len(base.definition) + 1
    IN  [exists |-> TRUE,
         definition |-> Append(base.definition, [sha |-> readout.def_sha]),
         run |-> Append(base.run,
                    [definition |-> def_ref, sha |-> readout.rec_sha,
                     source |-> <<>>, source_key |-> "",
                     bucket_hit |-> readout.bucket_hits,
                     point_hit |-> Readout_iter_point_hits(readout)])]

\* SQLReader.read(rec_ref), as far as the merge tables go
SQLReader_read(store, rec_ref) ==
    [def_sha |-> store.definition[store.run[rec_ref].definition].sha,
     rec_sha |-> store.run[rec_ref].sha,
     source |-> store.run[rec_ref].source,
     source_key |-> store.run[rec_ref].source_key,
     bucket_hits |-> store.run[rec_ref].bucket_hit,
     point_hits |-> store.run[rec_ref].point_hit]

\* SQLReader.read_all: every run row, in primary-key order
SQLReader_read_all(store) ==
    [rec_ref \in 1..Len(store.run) |-> SQLReader_read(store, rec_ref)]

\* SQLAccessor.File(path): create_engine + create_all make an empty database
\* of a path that held none
SQLAccessor_File(path) == IF path.exists THEN path ELSE EmptyStore

\* merged_readout = None
NoMerged == [none |-> TRUE, raised |-> FALSE, obj |-> <<>>]

\* faulty variant of the loop below: a file without records ends the loop
RECURSIVE merge_files_loopStopAtEmpty(_, _)
merge_files_loopStopAtEmpty(db_paths, merged_readout) ==
    IF db_paths = <<>> THEN merged_readout
    ELSE LET readouts == SQLReader_read_all(SQLAccessor_File(Head(db_paths)))
         IN  IF readouts = <<>> THEN merged_readout
             ELSE LET m == IF merged_readout.none
                           THEN MergeReadout_merge(MergeReadout_new(Head(readouts)),
                                                   Tail(readouts))
                           ELSE MergeReadout_merge(merged_readout.obj, readouts)
                  IN  IF m.raised THEN [none |-> FALSE, raised |-> TRUE, obj |-> m.obj]
                      ELSE merge_files_loopStopAtEmpty(Tail(db_paths),
                             [none |-> FALSE, raised |-> FALSE, obj |-> m.obj])

\* the loop of SQLAccessor.merge_files over db_paths: the first record found
\* becomes the master of a MergeReadout, every other record is merged into
\* it; a RuntimeError of merge() leaves the function
RECURSIVE merge_files_loop(_, _)
merge_files_loop(db_paths, merged_readout) ==
    IF db_paths = <<>> THEN merged_readout
    ELSE LET readouts == SQLReader_read_all(SQLAccessor_File(Head(db_paths)))
         IN  IF merged_readout.none /\ readouts = <<>>
             THEN merge_files_loop(Tail(db_paths), merged_readout)
             ELSE LET m == IF merged_readout.none
                           THEN MergeReadout_merge(MergeReadout_new(Head(readouts)),
                                                   Tail(readouts))
                           ELSE MergeReadout_merge(merged_readout.obj, readouts)
                  IN  IF m.raised THEN [none |-> FALSE, raised |-> TRUE, obj |-> m.obj]
                      ELSE merge_files_loop(Tail(db_paths),
                             [none |-> FALSE, raised |-> FALSE, obj |-> m.obj])

\* SQLAccessor.merge_files(*db_paths)
merge_files(db_paths) == merge_files_loop(db_paths, NoMerged)

\* max(1, max_attached - 1); a report of nothing (0 here) falls back to 10
MAX_ATTACH_of(max_attached) ==
    Max(1, (IF max_attached = 0 THEN 10 ELSE max_attached) - 1)

\* SELECT sha FROM srcN.definition LIMIT 1 / SELECT sha FROM srcN.run LIMIT 1
FirstDefSha(store) ==
    IF store.definition = <<>> THEN NoneVal ELSE store.definition[1].sha
\* faulty variant of FirstRecSha below: the run's definition column is
\* selected, not its sha
FirstRecShaWrongColumn(store) ==
    IF store.run = <<>> THEN NoneVal ELSE ToString(store.run[1].definition)
FirstRecSha(store) ==
    IF store.run = <<>> THEN NoneVal ELSE store.run[1].sha

\* SELECT start, SUM(hits) FROM (UNION ALL of every srcN.bucket_hit)
\* GROUP BY start ORDER BY start
RECURSIVE SumRunsAt(_, _)
SumRunsAt(runs, i) ==
    IF runs = <<>> THEN 0
    ELSE (IF i <= Len(Head(runs).bucket_hit) THEN Head(runs).bucket_hit[i] ELSE 0)
         + SumRunsAt(Tail(runs), i)

RECURSIVE AllRuns(_)
AllRuns(stores) ==
    IF stores = <<>> THEN <<>> ELSE Head(stores).run \o AllRuns(Tail(stores))

RECURSIVE MaxLenBucketHit(_)
MaxLenBucketHit(runs) ==
    IF runs = <<>> THEN 0
    ELSE Max(Len(Head(runs).bucket_hit), MaxLenBucketHit(Tail(runs)))

SqlSummedBucketHits(stores) ==
    LET runs == AllRuns(stores) IN
    [i \in 1..MaxLenBucketHit(runs) |-> SumRunsAt(runs, i)]

\* faulty variant of the loop below: the raw count is accumulated, not the
\* count capped at the target
RECURSIVE SqlPointHitLoopUncapped(_, _, _, _, _)
SqlPointHitLoopUncapped(all_bucket_hits, bucket_goals, lo, hi, acc) ==
    IF lo >= hi THEN acc
    ELSE LET bucket_target == IF lo + 1 <= Len(bucket_goals)
                              THEN bucket_goals[lo + 1] ELSE 10
             bucket_hits == IF lo + 1 <= Len(all_bucket_hits)
                            THEN all_bucket_hits[lo + 1] ELSE 0
             next ==
               IF bucket_target > 0
               THEN [hits |-> acc.hits + bucket_hits,
                     hit_buckets |-> acc.hit_buckets +
                         (IF bucket_hits > 0 THEN 1 ELSE 0),
                     full_buckets |-> acc.full_buckets +
                         (IF bucket_hits >= bucket_target THEN 1 ELSE 0)]
               ELSE acc
         IN  SqlPointHitLoopUncapped(all_bucket_hits, bucket_goals, lo + 1, hi, next)

\* Step 6 of merge_sql_direct: the point_hit loop over range(bucket_start,
\* bucket_end), with bucket_goals.get(idx, 10) and all_bucket_hits.get(idx, 0)
RECURSIVE SqlPointHitLoop(_, _, _, _, _)
SqlPointHitLoop(all_bucket_hits, bucket_goals, lo, hi, acc) ==
    IF lo >= hi THEN acc
    ELSE LET bucket_target == IF lo + 1 <= Len(bucket_goals)
                              THEN bucket_goals[lo + 1] ELSE 10
             bucket_hits == IF lo + 1 <= Len(all_bucket_hits)
                            THEN all_bucket_hits[lo + 1] ELSE 0
             capped_hits == Min(bucket_hits, bucket_target)
             next ==
               IF bucket_target > 0
               THEN [hits |-> acc.hits + capped_hits,
                     hit_buckets |-> acc.hit_buckets +
                         (IF bucket_hits > 0 THEN 1 ELSE 0),
                     full_buckets |-> acc.full_buckets +
                         (IF bucket_hits > 0 /\ capped_hits = bucket_target
                          THEN 1 ELSE 0)]
               ELSE acc
         IN  SqlPointHitLoop(all_bucket_hits, bucket_goals, lo + 1, hi, next)

SqlPointHits(def_sha, all_bucket_hits) ==
    LET points == iter_points(def_sha) IN
    [p \in 1..Len(points) |->
        LET acc == SqlPointHitLoop(all_bucket_hits, bucket_targets(def_sha),
                                   points[p].bucket_start, points[p].bucket_end,
                                   [hits |-> 0, hit_buckets |-> 0, full_buckets |-> 0])
        IN  [start |-> points[p].start, depth |-> points[p].depth,
             hits |-> acc.hits, hit_buckets |-> acc.hit_buckets,
             full_buckets |-> acc.full_buckets]]

\* faulty variant of FirstInvalid below: the run row is not asked for
RECURSIVE FirstInvalidDefinitionOnly(_, _)
FirstInvalidDefinitionOnly(stores, idx) ==
    IF idx > Len(stores) THEN 0
    ELSE IF FirstDefSha(stores[idx]) = NoneVal THEN idx
         ELSE FirstInvalidDefinitionOnly(stores, idx + 1)

\* index of the first input that has no definition row or no run row
RECURSIVE FirstInvalid(_, _)
FirstInvalid(stores, idx) ==
    IF idx > Len(stores) THEN 0
    ELSE IF FirstDefSha(stores[idx]) = NoneVal \/ FirstRecSha(stores[idx]) = NoneVal
         THEN idx
         ELSE FirstInvalid(stores, idx + 1)

\* the standard path of merge_sql_direct (at most MAX_ATTACH inputs): the
\* try block, the except branch that unlinks the output, and the result
SqlStandardMerge(inputs, source, source_key) ==
    LET failed == [outcome |-> "RuntimeError", output |-> NoFile,
                   temps |-> <<>>, run_id |-> 0]
        definition_shas == { FirstDefSha(inputs[i]) : i \in 1..Len(inputs) }
        record_shas == { FirstRecSha(inputs[i]) : i \in 1..Len(inputs) }
    IN  IF FirstInvalid(inputs, 1) # 0 THEN failed
        ELSE IF Cardinality(definition_shas) > 1 THEN failed
        ELSE IF Cardinality(record_shas) > 1 THEN failed
        ELSE LET master_def_sha == FirstDefSha(inputs[1])
                 master_rec_sha == FirstRecSha(inputs[1])
                 definition == inputs[1].definition
                 def_id == CHOOSE d \in 1..Len(definition) :
                             /\ definition[d].sha = master_def_sha
                             /\ \A e \in 1..(d - 1) : definition[e].sha # master_def_sha
                 bucket_hit == SqlSummedBucketHits(inputs)
                 run == [definition |-> def_id, sha |-> master_rec_sha,
                         source |-> IF source = NoSource
                                    THEN <<"Merged_", "TIMESTAMP">> ELSE source,
                         source_key |-> IF source_key = NoneVal THEN "" ELSE source_key,
                         bucket_hit |-> bucket_hit,
                         point_hit |-> SqlPointHits(master_def_sha, bucket_hit)]
             IN  [outcome |-> "ok",
                  output |-> [exists |-> TRUE, definition |-> definition,
                              run |-> <<run>>],
                  temps |-> <<>>, run_id |-> 1]

\* faulty variant of the slicing below: the last, shorter batch is left out
BatchesFullOnly(inputs, size) ==
    [k \in 1..(Len(inputs) \div size) |->
        SubSeq(inputs, (k - 1) * size + 1, k * size)]

\* input_paths[batch_idx : batch_idx + MAX_ATTACH] for batch_idx in
\* range(0, len(input_paths), MAX_ATTACH)
Batches(inputs, size) ==
    [k \in 1..((Len(inputs) + size - 1) \div size) |->
        SubSeq(inputs, (k - 1) * size + 1, Min(k * size, Len(inputs)))]

\* faulty variant of BatchTasks below: the slices start MAX_ATTACH - 1 apart
BatchTasksOverlapping(input_paths, MAX_ATTACH) ==
    LET stride == Max(1, MAX_ATTACH - 1)
        starts == { b \in 0..(Len(input_paths) - 1) : b % stride = 0 }
    IN  [k \in 1..Cardinality(starts) |->
            [batch_idx |-> (k - 1) * stride,
             batch_paths |-> SubSeq(input_paths, (k - 1) * stride + 1,
                                    Min((k - 1) * stride + MAX_ATTACH, Len(input_paths))),
             MAX_ATTACH |-> MAX_ATTACH, total_inputs |-> Len(input_paths)]]

\* the batch tasks of the batched path: (batch_idx, batch_paths, MAX_ATTACH,
\* len(input_paths)) for batch_idx in range(0, len(input_paths), MAX_ATTACH)
BatchTasks(input_paths, MAX_ATTACH) ==
    LET batches == Batches(input_paths, MAX_ATTACH)
    IN  [k \in 1..Len(batches) |->
            [batch_idx |-> (k - 1) * MAX_ATTACH, batch_paths |-> batches[k],
             MAX_ATTACH |-> MAX_ATTACH, total_inputs |-> Len(input_paths)]]

\* _merge_sql_batch(task): whether the nested merge_sql_direct on the task's
\* batch_paths, which asks the same store for its limit, takes the batched path
NestedBatched(task, max_attached) ==
    Len(task.batch_paths) > MAX_ATTACH_of(max_attached)

\* the batch results that stay on disk when some batch raised: the serial
\* loop stops at the first failure, the process pool runs every batch
LeakedTemps(results, parallel) ==
    LET first_bad == CHOOSE k \in 1..Len(results) :
                        /\ results[k].outcome # "ok"
                        /\ \A j \in 1..(k - 1) : results[j].outcome = "ok"
        kept == { k \in 1..Len(results) :
                    /\ results[k].outcome = "ok"
                    /\ (parallel \/ k < first_bad) }
        RECURSIVE Collect(_)
        Collect(k) == IF k > Len(results) THEN <<>>
                      ELSE (IF k \in kept THEN <<results[k].output>> ELSE <<>>)
                           \o Collect(k + 1)
    IN  Collect(1)

\* merge_sql_direct(output_path, *input_paths, source, source_key, parallel)
\* on a SQLite build that reports max_attached.  `prev` is what is at
\* output_path before the call.  The result is the exception raised (or
\* "ok"), what is at output_path afterwards, the temporary batch databases
\* still on disk, and the returned run id.
RECURSIVE merge_sql_direct(_, _, _, _, _, _)
merge_sql_direct(prev, input_paths, source, source_key, parallel, max_attached) ==
    LET MAX_ATTACH == MAX_ATTACH_of(max_attached) IN
    IF \/ input_paths = <<>>
       \/ \E i \in 1..Len(input_paths) :
             ~input_paths[i].exists \/ ~is_file(input_paths[i])
    THEN [outcome |-> "ValueError", output |-> prev, temps |-> <<>>, run_id |-> 0]
    ELSE IF Len(input_paths) > MAX_ATTACH
    THEN \* batched path; the output was unlinked and created empty before it
         LET batches == Batches(input_paths, MAX_ATTACH)
             \* _merge_sql_batch: a nested, serial merge into a temporary file
             results == [k \in 1..Len(batches) |->
                            merge_sql_direct(EmptyStore, batches[k],
                                             <<"batch_", ToString(k - 1)>>,
                                             "intermediate_merge",
                                             FALSE, max_attached)]
             all_ok == \A k \in 1..Len(batches) : results[k].outcome = "ok"
             temp_merged_dbs == [k \in 1..Len(batches) |-> results[k].output]
         IN  IF ~all_ok
             THEN [outcome |-> "RuntimeError", output |-> EmptyStore,
                   temps |-> LeakedTemps(results, parallel /\ Len(batches) > 1),
                   run_id |-> 0]
             ELSE IF Len(temp_merged_dbs) >= Len(input_paths)
             THEN \* the merge of the batch results is called on as many
                  \* databases as this call: the recursion never ends
                  [outcome |-> "RecursionError", output |-> EmptyStore,
                   temps |-> temp_merged_dbs, run_id |-> 0]
             ELSE LET final == merge_sql_direct(EmptyStore, temp_merged_dbs, source,
                                                source_key, parallel, max_attached)
                  IN  IF final.outcome = "ok"
                      THEN [outcome |-> "ok", output |-> final.output,
                            temps |-> final.temps,
                            run_id |-> Len(final.output.run)]
                      ELSE [outcome |-> final.outcome, output |-> final.output,
                            temps |-> temp_merged_dbs \o final.temps,
                            run_id |-> 0]
    ELSE SqlStandardMerge(input_paths, source, source_key)

(***************************************************************************)
(* Archive backend (bucket/rw/archive.py).  An archive is its definition   *)
(* rows and its record rows; a record's bucket_hit rows are one CSV line   *)
(* each, kept here as the decimal digits csv.writer puts out.  A record is *)
(* referred to by the byte offset of its line in the record file, which    *)
(* every writer and reader use alike: it is kept as the 1-based position   *)
(* of the record.  Offsets into the definition file are kept in bytes.     *)
(***************************************************************************)
\* csv.writer's text of a non-negative integer
RECURSIVE Digits(_)
Digits(n) == IF n < 10 THEN <<n>> ELSE Append(Digits(n \div 10), n % 10)

RECURSIVE DigitsValue(_)
DigitsValue(ds) ==
    IF ds = <<>> THEN 0
    ELSE 10 * DigitsValue(SubSeq(ds, 1, Len(ds) - 1)) + ds[Len(ds)]

\* the decimal digits every integer of which a double holds exactly
FloatExactDigits == 15

\* nearest double of an integer v, as an integer: above 2^53 the 53-bit
\* mantissa keeps a multiple of the unit in the last place, ties to even
RECURSIVE Ulp(_)
Ulp(v) == IF v < 2^53 THEN 1 ELSE 2 * Ulp(v \div 2)
RoundToDouble(v) ==
    LET u == Ulp(v)
        q == v \div u
        r == v % u
    IN  IF 2 * r < u THEN q * u
        ELSE IF 2 * r > u THEN (q + 1) * u
        ELSE IF q % 2 = 0 THEN q * u ELSE (q + 1) * u

\* int(float(line)) of _read_bucket_hits_fast, and the float -> int step of
\* _read (csv.QUOTE_NONNUMERIC)
int_float(line) ==
    IF Len(line) <= FloatExactDigits THEN DigitsValue(line)
    ELSE RoundToDouble(DigitsValue(line))

\* a sampled readout with the tables a writer asks it for
FullReadout(readout) ==
    [def_sha |-> readout.def_sha, rec_sha |-> readout.rec_sha,
     source |-> <<>>, source_key |-> "",
     point_hits |-> Readout_iter_point_hits(readout),
     bucket_hits |-> readout.bucket_hits]

\* the fields of a line of the definition file
DefinitionFields == 11
\* the bytes of such a line as csv.writer puts it out: the quoted two-letter
\* fingerprint of the model, a comma and a digit for each of the ten offsets,
\* "\r\n" (longer offsets make longer lines)
DefinitionLineBytes == 2 + 2 + 2 * (DefinitionFields - 1) + 2

\* _write's byte_offset (f.tell() of the file opened for appending) when the
\* definition file holds the given rows
DefinitionFileEnd(definition) == Len(definition) * DefinitionLineBytes

\* _read(definition file, byte_offset, byte_offset + 1, 0, 1): the row whose
\* line starts at the byte sought, 0 when the byte is inside a line or past
\* the end of the file (no tuple of eleven fields comes out of the text read
\* from there: csv.reader, the tuple constructor or next() raises)
DefinitionRowAt(definition, byte_offset) ==
    IF byte_offset % DefinitionLineBytes = 0 /\ byte_offset < DefinitionFileEnd(definition)
    THEN (byte_offset \div DefinitionLineBytes) + 1
    ELSE 0

\* ArchiveWriter.write: the definition is written once per fingerprint, the
\* record and its hit rows always; appends to an archive already at the path.
\* A new definition line is referred to by the byte offset _write returns, a
\* line found in the file by its index in enumerate(def_rows).
ArchiveWriter_write(archive, readout) ==
    LET base == [definition |-> archive.definition, run |-> archive.record]
        existing == { d \in 1..Len(base.definition) :
                        base.definition[d].def_sha = readout.def_sha }
        found == existing # {}
        existing_def_offset ==
            IF found THEN (CHOOSE d \in existing : \A e \in existing : d <= e) - 1
            ELSE 0
        definition == IF found THEN base.definition
                      ELSE Append(base.definition, [def_sha |-> readout.def_sha])
        definition_offset == IF found THEN existing_def_offset
                             ELSE DefinitionFileEnd(base.definition)
    IN  [exists |-> TRUE,
         definition |-> definition,
         record |-> Append(base.run,
                      [rec_sha |-> readout.rec_sha,
                       definition_offset |-> definition_offset,
                       point_hit |-> readout.point_hits,
                       bucket_hit |-> [i \in 1..Len(readout.bucket_hits) |->
                                          Digits(readout.bucket_hits[i])],
                       source |-> readout.source,
                       source_key |-> readout.source_key])]

\* ArchiveReader.read(rec_ref): ArchiveReadout over the extracted files
ArchiveReader_read(archive, rec_ref) ==
    LET record == archive.record[rec_ref]
        d == DefinitionRowAt(archive.definition, record.definition_offset)
    IN  IF d = 0
        THEN [raised |-> TRUE, def_sha |-> NoneVal, rec_sha |-> record.rec_sha,
              source |-> record.source, source_key |-> record.source_key,
              point_hits |-> <<>>, bucket_hits |-> <<>>]
        ELSE [raised |-> FALSE, def_sha |-> archive.definition[d].def_sha,
              rec_sha |-> record.rec_sha,
              source |-> record.source, source_key |-> record.source_key,
              point_hits |-> record.point_hit,
              bucket_hits |-> [i \in 1..Len(record.bucket_hit) |->
                                 int_float(record.bucket_hit[i])]]

\* aggregate_archive_hits: the bucket hits of the archive's first record,
\* read by _read_bucket_hits_fast
aggregate_archive_hits(archive) ==
    LET record == archive.record[1] IN
    [i \in 1..Len(record.bucket_hit) |-> int_float(record.bucket_hit[i])]

\* faulty variant of the reduction below: `=` written for `+=`
RECURSIVE AggregateHitsAssign(_, _)
AggregateHitsAssign(hits_dicts, aggregated_hits) ==
    IF hits_dicts = <<>> THEN aggregated_hits
    ELSE LET hits_dict == Head(hits_dicts)
             n == Max(Len(hits_dict), Len(aggregated_hits))
         IN  AggregateHitsAssign(Tail(hits_dicts),
                [i \in 1..n |->
                    IF i <= Len(hits_dict) THEN hits_dict[i] ELSE aggregated_hits[i]])

\* aggregated_hits[bucket_idx] += hits over the per-archive results, taken
\* in the order the workers complete
RECURSIVE AggregateHits(_, _)
AggregateHits(hits_dicts, aggregated_hits) ==
    IF hits_dicts = <<>> THEN aggregated_hits
    ELSE LET hits_dict == Head(hits_dicts)
             n == Max(Len(hits_dict), Len(aggregated_hits))
         IN  AggregateHits(Tail(hits_dicts),
                [i \in 1..n |->
                    (IF i <= Len(aggregated_hits) THEN aggregated_hits[i] ELSE 0)
                    + (IF i <= Len(hits_dict) THEN hits_dict[i] ELSE 0)])

\* the order in which n workers complete when worker first_done ends first
\* (submission order for the serial path)
CompletionOrder(n, parallel, first_done) ==
    IF parallel /\ n > 1
    THEN [i \in 1..n |-> ((first_done - 1 + i - 1) % n) + 1]
    ELSE [i \in 1..n |-> i]

\* faulty variant of the loop below: the `bucket_target > 0` test is missing
RECURSIVE ArchivePointHitLoopAnyTarget(_, _, _, _, _)
ArchivePointHitLoopAnyTarget(aggregated_hits, bucket_goal_map, lo, hi, acc) ==
    IF lo >= hi THEN acc
    ELSE LET bucket_target == IF lo + 1 <= Len(bucket_goal_map)
                              THEN bucket_goal_map[lo + 1] ELSE 10
             bucket_hits == IF lo + 1 <= Len(aggregated_hits)
                            THEN aggregated_hits[lo + 1] ELSE 0
             capped_hits == Min(bucket_hits, bucket_target)
             next == [hits |-> acc.hits + capped_hits,
                      hit_buckets |-> acc.hit_buckets +
                          (IF bucket_hits > 0 THEN 1 ELSE 0),
                      full_buckets |-> acc.full_buckets +
                          (IF bucket_hits > 0 /\ capped_hits = bucket_target
                           THEN 1 ELSE 0)]
         IN  ArchivePointHitLoopAnyTarget(aggregated_hits, bucket_goal_map,
                                          lo + 1, hi, next)

\* the point_hit loop of merge_archive_direct, with
\* bucket_goal_map.get(idx, 10) and aggregated_hits.get(idx, 0)
RECURSIVE ArchivePointHitLoop(_, _, _, _, _)
ArchivePointHitLoop(aggregated_hits, bucket_goal_map, lo, hi, acc) ==
    IF lo >= hi THEN acc
    ELSE LET bucket_target == IF lo + 1 <= Len(bucket_goal_map)
                              THEN bucket_goal_map[lo + 1] ELSE 10
             bucket_hits == IF lo + 1 <= Len(aggregated_hits)
                            THEN aggregated_hits[lo + 1] ELSE 0
             capped_hits == Min(bucket_hits, bucket_target)
             next ==
               IF bucket_target > 0
               THEN [hits |-> acc.hits + capped_hits,
                     hit_buckets |-> acc.hit_buckets +
                         (IF bucket_hits > 0 THEN 1 ELSE 0),
                     full_buckets |-> acc.full_buckets +
                         (IF bucket_hits > 0 /\ capped_hits = bucket_target
                          THEN 1 ELSE 0)]
               ELSE acc
         IN  ArchivePointHitLoop(aggregated_hits, bucket_goal_map, lo + 1, hi, next)

ArchivePointHits(def_sha, aggregated_hits) ==
    LET points == iter_points(def_sha) IN
    [p \in 1..Len(points) |->
        LET acc == ArchivePointHitLoop(aggregated_hits, bucket_targets(def_sha),
                                   points[p].bucket_start, points[p].bucket_end,
                                   [hits |-> 0, hit_buckets |-> 0, full_buckets |-> 0])
        IN  [start |-> points[p].start, depth |-> points[p].depth,
             hits |-> acc.hits, hit_buckets |-> acc.hit_buckets,
             full_buckets |-> acc.full_buckets]]

\* next(_read(record file, 0, 1, 0, 1)) raises StopIteration for an archive
\* whose record file holds no line: in ArchiveReadout.__init__ and in the
\* unit of work aggregate_archive_hits
RecordMissing(archive) == archive.record = <<>>

\* faulty variant of future_results below: a unit that raised is left out
future_resultsSkipFailed(input_paths, order) ==
    LET HasRecord(i) == ~RecordMissing(input_paths[i])
        done == SelectSeq(order, HasRecord)
    IN  [raised |-> FALSE,
         hits_dicts |-> [i \in 1..Len(done) |-> aggregate_archive_hits(input_paths[done[i]])]]

\* future.result() for the units in completion order (the serial loop: the
\* calls in input order): the hits of every unit, or the exception of one
future_results(input_paths, order) ==
    IF \E i \in 1..Len(input_paths) : RecordMissing(input_paths[i])
    THEN [raised |-> TRUE, hits_dicts |-> <<>>]
    ELSE [raised |-> FALSE,
          hits_dicts |-> [i \in 1..Len(input_paths) |->
                             aggregate_archive_hits(input_paths[order[i]])]]

\* faulty variant of first_readout below: the archive of the unit that
\* completes first is read
first_readoutOfFirstDone(input_paths, order) ==
    ArchiveReader_read(input_paths[order[1]], 1)

\* first_reader = ArchiveReader(input_paths[0]); first_reader.read(0): read
\* before any unit of work is submitted, whatever order the units end in
first_readout(input_paths, order) == ArchiveReader_read(input_paths[1], 1)

\* the non-batched body of merge_archive_direct with the units of work
\* completing in the given order: no input is compared with another; the
\* fingerprints and definition are those of the first archive
ArchiveMergeInOrder(prev, input_paths, source, source_key, order) ==
    LET results == future_results(input_paths, order)
        raised == [outcome |-> "StopIteration", output |-> prev, temps |-> <<>>,
                   record_offset |-> 0]
    IN
    IF RecordMissing(input_paths[1]) \/ results.raised THEN raised
    ELSE
    LET first_readout_ == first_readout(input_paths, order)
        aggregated_hits == AggregateHits(results.hits_dicts, <<>>)
        merged_readout ==
            [def_sha |-> first_readout_.def_sha, rec_sha |-> first_readout_.rec_sha,
             source |-> IF source = NoSource \/ source = <<>>
                        THEN <<"Merged_", "TIMESTAMP">> ELSE source,
             source_key |-> IF source_key = NoneVal THEN "" ELSE source_key,
             point_hits |-> ArchivePointHits(first_readout_.def_sha, aggregated_hits),
             bucket_hits |-> aggregated_hits]
        output == ArchiveWriter_write(prev, merged_readout)
    IN  [outcome |-> "ok", output |-> output, temps |-> <<>>,
         record_offset |-> Len(output.record)]

\* the non-batched body of merge_archive_direct on the serial path or with
\* worker first_done ending first
ArchiveStandardMerge(prev, input_paths, source, source_key, parallel, first_done) ==
    ArchiveMergeInOrder(prev, input_paths, source, source_key,
                        CompletionOrder(Len(input_paths), parallel, first_done))

\* archives larger than this are batched when no batch size is given
AutoBatchThreshold == 2000
AutoBatchSize == 1000

\* merge_archive_direct(output_path, *input_paths, source, source_key,
\* parallel, batch_size); batch_size 0 stands for None as well
RECURSIVE merge_archive_direct(_, _, _, _, _, _, _)
merge_archive_direct(prev, input_paths, source, source_key, parallel, first_done, batch_size_arg) ==
    LET batch_size == IF batch_size_arg = 0 /\ Len(input_paths) > AutoBatchThreshold
                      THEN AutoBatchSize ELSE batch_size_arg
    IN
    IF input_paths = <<>>
    THEN [outcome |-> "ValueError", output |-> prev, temps |-> <<>>,
          record_offset |-> 0]
    ELSE IF batch_size > 0 /\ Len(input_paths) > batch_size
    THEN LET batches == Batches(input_paths, batch_size)
             results == [k \in 1..Len(batches) |->
                            merge_archive_direct(NoArchive, batches[k], NoSource, NoneVal,
                                                 parallel, first_done, 0)]
             temp_archives == [k \in 1..Len(batches) |-> results[k].output]
             next_size == IF Len(temp_archives) > batch_size THEN batch_size ELSE 0
         IN  IF \E k \in 1..Len(batches) : results[k].outcome # "ok"
             THEN LET k == CHOOSE j \in 1..Len(batches) : results[j].outcome # "ok"
                  IN  [outcome |-> results[k].outcome, output |-> prev,
                       temps |-> <<>>, record_offset |-> 0]
             ELSE IF next_size > 0 /\ Len(temp_archives) >= Len(input_paths)
             THEN \* the batch results are merged by a call on as many
                  \* archives with the same batch size: the recursion never ends
                  [outcome |-> "RecursionError", output |-> prev, temps |-> <<>>,
                   record_offset |-> 0]
             ELSE merge_archive_direct(prev, temp_archives, source, source_key,
                                       parallel, first_done, next_size)
    ELSE IF \E i \in 1..Len(input_paths) : ~input_paths[i].exists
    THEN [outcome |-> "ValueError", output |-> prev, temps |-> <<>>,
          record_offset |-> 0]
    ELSE ArchiveStandardMerge(prev, input_paths, source, source_key, parallel,
                              first_done)

(***************************************************************************)
(* Bucket index codec: the order in which a coverpoint lays out its buckets *)
(* (bucket/coverpoint.py) and the decoding of a bucket offset into axis     *)
(* values (PointAccess.buckets, bucket/rw/common.py).  A value-name is the  *)
(* pair <<axis, position>>; an axis is named by its index in the point.     *)
(***************************************************************************)
RECURSIVE Flatten(_)
Flatten(seqs) == IF seqs = <<>> THEN <<>> ELSE Head(seqs) \o Flatten(Tail(seqs))

\* list(axis.values.keys()) for every axis of a point with these axis sizes
AxisValueKeys(sizes) ==
    [k \in 1..Len(sizes) |-> [j \in 1..sizes[k] |-> <<k, j - 1>>]]

\* itertools.product(*axis_values)
RECURSIVE itertools_product(_)
itertools_product(lists) ==
    IF lists = <<>> THEN << <<>> >>
    ELSE LET rest == itertools_product(Tail(lists))
         IN  Flatten([a \in 1..Len(Head(lists)) |->
                        [r \in 1..Len(rest) |-> <<Head(lists)[a]>> \o rest[r]]])

\* Coverpoint._all_axis_value_combinations: the bucket at offset i of the
\* point is element i + 1
all_axis_value_combinations(sizes) == itertools_product(AxisValueKeys(sizes))

\* the axis rows of the point: value_start / value_end into the flat
\* axis-value table, in which `base` rows of earlier points come first
RECURSIVE AxisRows(_, _)
AxisRows(sizes, value_start) ==
    IF sizes = <<>> THEN <<>>
    ELSE <<[value_start |-> value_start, value_end |-> value_start + Head(sizes)]>>
         \o AxisRows(Tail(sizes), value_start + Head(sizes))

\* raw_axis_values(point.axis_value_start, point.axis_value_end)
raw_axis_values(sizes) == Flatten(AxisValueKeys(sizes))

\* faulty variant of the loop below: the axes are taken in declaration
\* order, axes.reverse() is missing
RECURSIVE DecodeLoopForward(_, _, _, _, _, _)
DecodeLoopForward(axes, axis_values, axis_value_start, k, offset, bucket_axis_values) ==
    IF k = 0 THEN bucket_axis_values
    ELSE LET j == Len(axes) - k + 1
             axis_offset == axes[j].value_start - axis_value_start
             axis_size == axes[j].value_end - axes[j].value_start
             value == axis_values[axis_offset + (offset % axis_size) + 1]
         IN  DecodeLoopForward(axes, axis_values, axis_value_start, k - 1,
                               offset \div axis_size,
                               [bucket_axis_values EXCEPT ![j] = value])

\* the `for axis in axes` loop of PointAccess.buckets over the reversed
\* axes, from axis k down to the first
RECURSIVE DecodeLoop(_, _, _, _, _, _)
DecodeLoop(axes, axis_values, axis_value_start, k, offset, bucket_axis_values) ==
    IF k = 0 THEN bucket_axis_values
    ELSE LET axis_offset == axes[k].value_start - axis_value_start
             axis_size == axes[k].value_end - axes[k].value_start
             value == axis_values[axis_offset + (offset % axis_size) + 1]
         IN  DecodeLoop(axes, axis_values, axis_value_start, k - 1,
                        offset \div axis_size,
                        [bucket_axis_values EXCEPT ![k] = value])

\* PointAccess.buckets: the axis values of the bucket at `offset` within a
\* point whose axis values start at row `base` of the axis-value table
PointAccess_buckets(sizes, base, offset) ==
    DecodeLoop(AxisRows(sizes, base), raw_axis_values(sizes), base, Len(sizes),
               offset, [k \in 1..Len(sizes) |-> <<0, 0>>])

(***************************************************************************)
(* Axes and their fingerprints (bucket/axis.py, bucket/coverpoint.py).  A   *)
(* string is the sequence of its characters.  A sha256 object stands for    *)
(* the bytes fed to it so far: two objects give the same digest exactly     *)
(* when those byte sequences are equal.                                     *)
(***************************************************************************)
DigitChars == <<"0", "1", "2", "3", "4", "5", "6", "7", "8", "9">>
\* the characters in code point order
Alphabet == DigitChars \o <<"a", "b", "c">>
CharCode(c) == CHOOSE i \in 1..Len(Alphabet) : Alphabet[i] = c

\* str(v) of a non-negative integer
str(v) == [i \in 1..Len(Digits(v)) |-> DigitChars[Digits(v)[i] + 1]]

\* s < t of two Python strings
RECURSIVE StrLess(_, _)
StrLess(s, t) ==
    IF t = <<>> THEN FALSE
    ELSE IF s = <<>> THEN TRUE
    ELSE IF Head(s) = Head(t) THEN StrLess(Tail(s), Tail(t))
    ELSE CharCode(Head(s)) < CharCode(Head(t))

\* values_dict[str(v)] = v for v in values: the keys in insertion order, a
\* repeated key keeping its first place
RECURSIVE DictKeys(_, _)
DictKeys(values, keys) ==
    IF values = <<>> THEN keys
    ELSE DictKeys(Tail(values),
                  IF \E k \in 1..Len(keys) : keys[k] = str(Head(values)) THEN keys
                  ELSE Append(keys, str(Head(values))))

\* sorted() of the keys
RECURSIVE sorted(_)
sorted(keys) ==
    IF keys = <<>> THEN <<>>
    ELSE LET rest == sorted(Tail(keys))
             n == Cardinality({ k \in 1..Len(rest) : StrLess(rest[k], Head(keys)) })
         IN  SubSeq(rest, 1, n) \o <<Head(keys)>> \o SubSeq(rest, n + 1, Len(rest))

\* faulty variant of sanitise_values below: the keys stay in the order the
\* values were supplied in
sanitise_valuesUnsorted(values) == DictKeys(values, <<>>)

\* Axis.sanitise_values of a list of plain values, no "other" value: the
\* value-names in the order of the dict returned
sanitise_values(values) == sorted(DictKeys(values, <<>>))

\* Axis.__init__: the value-names, the size and the sha256 object, fed
\* name + description and then every value-name
Axis_init(name, description, values) ==
    LET vals == sanitise_values(values)
    IN  [name |-> name, description |-> description, values |-> vals,
         size |-> Len(vals), sha |-> name \o description \o Flatten(vals)]

\* Coverpoint._init of a point with the one axis and no goal but DEFAULT: the
\* sha256 object is fed name + description and the digest of the goal of
\* every bucket
Coverpoint_sha(name, description, axis) ==
    name \o description \o [i \in 1..axis.size |-> "DEFAULT.sha.digest()"]

\* Coverpoint._chain_def: the fingerprints linked into the Definition
\* fingerprint of the point, in chain order: the axis, the goal, the point
chain_def(axis) ==
    << axis.sha, <<"DEFAULT.sha.digest()">>, Coverpoint_sha(<<"c">>, <<>>, axis) >>

(***************************************************************************)
(* Point tables (tests/utils.py, GeneratedReadout).  A tree is the sequence *)
(* of its nodes in the order the generator visits them, each with its depth *)
(* and whether the generator made it a group; a node's children are the     *)
(* nodes one level deeper that follow it up to the next node at its own     *)
(* level or above.                                                          *)
(***************************************************************************)
\* _generate_point: the point row of the leaf at node i
generate_point(tree, i, start) ==
    LET point == [start |-> start, depth |-> tree[i].depth, end |-> start + 1,
                  description |-> "Point"]
    IN  [point |-> point, rows |-> <<point>>, next |-> i + 1]

\* _generate_group: the loop over the children appends their rows, the group
\* row is appended last; `next` is the node after the group's subtree
RECURSIVE generate_group(_, _, _)
RECURSIVE GroupLoop(_, _, _, _, _)
GroupLoop(tree, j, child_depth, child_start, rows) ==
    IF j > Len(tree) \/ tree[j].depth # child_depth
    THEN [rows |-> rows, child_start |-> child_start, next |-> j]
    ELSE LET child == IF tree[j].group THEN generate_group(tree, j, child_start)
                      ELSE generate_point(tree, j, child_start)
         IN  GroupLoop(tree, child.next, child_depth, child.point.end,
                       rows \o child.rows)

\* faulty variant of generate_group below: the group takes no identifier of
\* its own
generate_groupLeavesOnly(tree, i, start) ==
    LET loop == GroupLoop(tree, i + 1, tree[i].depth + 1, start, <<>>)
        group == [start |-> start, depth |-> tree[i].depth,
                  end |-> loop.child_start, description |-> "Group"]
    IN  [point |-> group, rows |-> Append(loop.rows, group), next |-> loop.next]

generate_group(tree, i, start) ==
    LET loop == GroupLoop(tree, i + 1, tree[i].depth + 1, start, <<>>)
        group == [start |-> start, depth |-> tree[i].depth,
                  end |-> loop.child_start + 1, description |-> "Group"]
    IN  [point |-> group, rows |-> Append(loop.rows, group), next |-> loop.next]

\* list.sort(key=lambda p: (p.start, p.depth))
PointKeyLess(p, q) == p.start < q.start \/ (p.start = q.start /\ p.depth < q.depth)
RECURSIVE SortPoints(_)
SortPoints(rows) ==
    IF rows = <<>> THEN <<>>
    ELSE LET rest == SortPoints(Tail(rows))
             before == { k \in 1..Len(rest) : ~PointKeyLess(Head(rows), rest[k]) }
             n == Cardinality(before)
         IN  SubSeq(rest, 1, n) \o <<Head(rows)>> \o SubSeq(rest, n + 1, Len(rest))

\* GeneratedReadout.__init__: the root is generated at start 0, depth 0 and
\* the point table is sorted
GeneratedPoints(tree) ==
    SortPoints((IF tree[1].group THEN generate_group(tree, 1, 0)
                ELSE generate_point(tree, 1, 0)).rows)

\* GeneratedReadout.__init__: a point_hit row is appended with every point
\* row and carries its start and depth; the table is sorted by the same key
GeneratedPointHits(tree) ==
    LET rows == (IF tree[1].group THEN generate_group(tree, 1, 0)
                 ELSE generate_point(tree, 1, 0)).rows
    IN  SortPoints([k \in 1..Len(rows) |->
                      [start |-> rows[k].start, depth |-> rows[k].depth]])

\* faulty variant of the slice below: the depth is not added to the bounds
PuppetReadout_iter_pointsNoDepth(points, start, end, depth) ==
    SubSeq(points, start + 1, Min(end, Len(points)))

\* PuppetReadout.iter_points / iter_point_hits(start, end, depth):
\* self.points[start + depth : end + depth]
PuppetReadout_iter_points(points, start, end, depth) ==
    SubSeq(points, start + depth + 1, Min(end + depth, Len(points)))

(***************************************************************************)
(* The state: three sampled readouts A, B, C; the files handed to a merge  *)
(* are copies of them, file i holding readout ((i - 1) mod 3) + 1, one     *)
(* readout per file.                                                       *)
(***************************************************************************)
VARIABLES
    pool,   \* the sampled readouts, by slot
    mem,    \* the MergeReadout object and its last call
    drv,    \* the last call of a merge driver and what it left behind
    grp,    \* the tables of one triple merged in three groupings
    enc,    \* the last call into the definition encoder / bucket decoder
    arc     \* an archive written to record by record, and the last read of it

vars == <<pool, mem, drv, grp, enc, arc>>

Slots == <<"A", "B", "C">>

\* the readout of the i-th input of a call
InputAt(i) == pool[((i - 1) % Len(Slots)) + 1]
InputReadouts(lo, hi) == [i \in 1..(hi - lo + 1) |-> InputAt(lo + i - 1)]

\* the i-th input written to a file of its own
SqlInputs(n) == [i \in 1..n |-> SQLWriter_write(NoFile, FullReadout(InputAt(i)))]
ArchiveInputs(n) ==
    [i \in 1..n |-> ArchiveWriter_write(NoArchive, FullReadout(InputAt(i)))]

\* what PRAGMA max_attached may report (0: nothing), the batch sizes a
\* caller passes (0: none)
MaxAttachedReports == {0, 2, 3}
BatchSizes == {0, 1, 2}
\* the worker that completes first on the parallel path
FirstDone == {1, 2}

\* no call into the encoder yet
NoEnc == [op |-> "none"]

\* nothing at the archive's path, nothing read
NoRead == [ref |-> 0,
           readout |-> [raised |-> FALSE, def_sha |-> NoneVal, rec_sha |-> NoneVal,
                        source |-> <<>>, source_key |-> "",
                        point_hits |-> <<>>, bucket_hits |-> <<>>]]
NoArc == [archive |-> NoArchive, written |-> <<>>, read |-> NoRead]

NoObj == [master |-> [def_sha |-> "", rec_sha |-> "", bucket_hits |-> <<>>],
          bucket_hits |-> <<>>, bucket_targets |-> <<>>]
NoTables == [bucket_hits |-> <<>>, point_hits |-> <<>>]

Tables(m) == [bucket_hits |-> MergeReadout_iter_bucket_hits(m),
              point_hits |-> MergeReadout_iter_point_hits(m)]

\* the bucket-hit and point-hit tables of a stored record, read back through
\* SQLReader / ArchiveReader and the Readout iterators
BucketHitRows(hits) == [i \in 1..Len(hits) |-> [start |-> i - 1, hits |-> hits[i]]]
SqlTables(store, rec_ref) ==
    LET readout == SQLReader_read(store, rec_ref)
    IN  [bucket_hits |-> BucketHitRows(readout.bucket_hits),
         point_hits |-> readout.point_hits]
ArchiveTables(archive, rec_ref) ==
    LET readout == ArchiveReader_read(archive, rec_ref)
    IN  [bucket_hits |-> BucketHitRows(readout.bucket_hits),
         point_hits |-> readout.point_hits]

Init ==
    /\ pool \in [DOMAIN Slots -> Readouts]
    /\ mem = [op |-> "none", live |-> FALSE, obj |-> NoObj, raised |-> FALSE,
              everRaised |-> FALSE, lo |-> 0, hi |-> 0]
    /\ drv = [op |-> "none", n |-> 0, limit |-> 0, res |-> [outcome |-> "none"]]
    /\ grp = [done |-> FALSE, order |-> <<1, 2, 3>>, left |-> NoTables,
              right |-> NoTables, flat |-> NoTables, ref |-> NoTables]
    /\ enc = NoEnc
    /\ arc = NoArc

Idle == mem.op = "none" /\ drv.op = "none" /\ ~grp.done

\* the outcomes that are a RuntimeError to the caller (RecursionError is a
\* subclass of RuntimeError)
RuntimeErrors == {"RuntimeError", "RecursionError"}

\* the merged record the last call left: the live MergeReadout, or the
\* record the driver returned the reference of, read back from its output
HasResult == mem.live \/ (drv.op # "none" /\ drv.res.outcome = "ok")
Result ==
    IF mem.live
    THEN [def_sha |-> mem.obj.master.def_sha, rec_sha |-> mem.obj.master.rec_sha,
          tables |-> Tables(mem.obj)]
    ELSE IF drv.op = "sql"
    THEN LET readout == SQLReader_read(drv.res.output, drv.res.run_id)
         IN  [def_sha |-> readout.def_sha, rec_sha |-> readout.rec_sha,
              tables |-> SqlTables(drv.res.output, drv.res.run_id)]
    ELSE LET readout == ArchiveReader_read(drv.res.output, drv.res.record_offset)
         IN  [def_sha |-> readout.def_sha, rec_sha |-> readout.rec_sha,
              tables |-> ArchiveTables(drv.res.output, drv.res.record_offset)]
\* how many inputs the last call was given
ResultInputs == IF mem.live THEN mem.hi ELSE drv.n

\* MergeReadout(input 1, inputs 2..n)
Construct(n) ==
    /\ Idle
    /\ LET r == MergeReadout_init(InputAt(1), InputReadouts(2, n))
       IN  mem' = [op |-> "init", live |-> r.live, obj |-> r.obj,
                   raised |-> r.raised, everRaised |-> r.raised,
                   lo |-> 2, hi |-> n]
    /\ UNCHANGED <<pool, drv, grp, enc, arc>>

\* merged.merge(inputs hi+1 .. j) on the live object
Merge(j) ==
    /\ mem.live
    /\ j > mem.hi
    /\ LET r == MergeReadout_merge(mem.obj, InputReadouts(mem.hi + 1, j))
       IN  mem' = [op |-> "merge", live |-> TRUE, obj |-> r.obj,
                   raised |-> r.raised,
                   everRaised |-> mem.everRaised \/ r.raised,
                   lo |-> mem.hi + 1, hi |-> j]
    /\ UNCHANGED <<pool, drv, grp, enc, arc>>

\* merge_sql_direct(output, file 1 .. file n) with nothing at the output path
SqlMergeDirect(n, max_attached, parallel) ==
    /\ Idle
    \* the flag is read by the batched path only
    /\ n <= MAX_ATTACH_of(max_attached) => parallel
    /\ drv' = [op |-> "sql", n |-> n, limit |-> max_attached,
               res |-> merge_sql_direct(NoFile, SqlInputs(n), NoSource, NoneVal,
                                        parallel, max_attached)]
    /\ UNCHANGED <<pool, mem, grp, enc, arc>>

\* merge_archive_direct(output, archive 1 .. archive n)
ArchiveMergeDirect(n, batch_size, parallel, first_done) ==
    /\ Idle
    \* the completion order is that of the workers of the parallel path
    /\ first_done <= Max(n, 1)
    /\ ~parallel => first_done = 1
    /\ drv' = [op |-> "archive", n |-> n, limit |-> batch_size,
               res |-> merge_archive_direct(NoArchive, ArchiveInputs(n), NoSource,
                                            NoneVal, parallel, first_done, batch_size)]
    /\ UNCHANGED <<pool, mem, grp, enc, arc>>

Compatible(r1, r2) == r1.def_sha = r2.def_sha /\ r1.rec_sha = r2.rec_sha

Permutations3 == { p \in [DOMAIN Slots -> DOMAIN Slots] :
                     \A i, j \in DOMAIN Slots : p[i] = p[j] => i = j }

\* the three readouts, taken in the order p, merged as (X + Y) + Z, as
\* X + (Y + Z) and as X + Y + Z in one call; ref is A + B + C in one call
Regroup(p) ==
    /\ Idle
    /\ \A i, j \in DOMAIN Slots : Compatible(pool[i], pool[j])
    /\ LET X == pool[p[1]]
           Y == pool[p[2]]
           Z == pool[p[3]]
           xy == MergeReadout_init(X, <<Y>>).obj
           yz == MergeReadout_init(Y, <<Z>>).obj
       IN  grp' = [done |-> TRUE, order |-> p,
                   left |-> Tables(MergeReadout_init(MergeReadout_as_readout(xy),
                                                     <<Z>>).obj),
                   right |-> Tables(MergeReadout_init(X,
                                        <<MergeReadout_as_readout(yz)>>).obj),
                   flat |-> Tables(MergeReadout_init(X, <<Y, Z>>).obj),
                   ref |-> Tables(MergeReadout_init(pool[1],
                                                    <<pool[2], pool[3]>>).obj)]
    /\ UNCHANGED <<pool, mem, drv, enc, arc>>

Next ==
    \/ Idle /\ \E n \in 1..MaxInputs : Construct(n)
    \/ mem.live /\ \E j \in 1..MaxInputs : Merge(j)
    \/ Idle /\ \E n \in 0..MaxInputs, max_attached \in MaxAttachedReports,
          parallel \in BOOLEAN : SqlMergeDirect(n, max_attached, parallel)
    \/ Idle /\ \E n \in 0..MaxInputs, batch_size \in BatchSizes,
          parallel \in BOOLEAN, first_done \in FirstDone :
            ArchiveMergeDirect(n, batch_size, parallel, first_done)
    \/ Idle /\ \E p \in Permutations3 : Regroup(p)

Spec == Init /\ [][Next]_vars

(***************************************************************************)
(* The encoder side, on its own: one call per behaviour, from a state in   *)
(* which no merge has been made.                                           *)
(***************************************************************************)
\* the point shapes: a list of axis sizes
RECURSIVE Shapes(_)
Shapes(n) ==
    IF n = 0 THEN { <<>> }
    ELSE Shapes(n - 1) \cup
         { Append(sh, z) : sh \in { t \in Shapes(n - 1) : Len(t) = n - 1 },
                           z \in 0..MaxAxisSize }

RECURSIVE SeqProduct(_)
SeqProduct(sizes) == IF sizes = <<>> THEN 1 ELSE Head(sizes) * SeqProduct(Tail(sizes))

\* the point's first row in the axis-value table
AxisValueStarts == {0, 2}

\* point.buckets() read up to the bucket at offset i
Buckets(sizes, base, i) ==
    /\ enc.op = "none"
    /\ i < SeqProduct(sizes)
    /\ enc' = [op |-> "buckets", sizes |-> sizes, base |-> base, offset |-> i,
               combinations |-> all_axis_value_combinations(sizes),
               bucket_axis_values |-> PointAccess_buckets(sizes, base, i)]
    /\ UNCHANGED <<pool, mem, drv, grp, arc>>

EncInit ==
    /\ pool = [i \in DOMAIN Slots |->
                 [def_sha |-> "dA", rec_sha |-> "rA", bucket_hits |-> <<0, 0>>]]
    /\ mem = [op |-> "none", live |-> FALSE, obj |-> NoObj, raised |-> FALSE,
              everRaised |-> FALSE, lo |-> 0, hi |-> 0]
    /\ drv = [op |-> "none", n |-> 0, limit |-> 0, res |-> [outcome |-> "none"]]
    /\ grp = [done |-> FALSE, order |-> <<1, 2, 3>>, left |-> NoTables,
              right |-> NoTables, flat |-> NoTables, ref |-> NoTables]
    /\ enc = NoEnc
    /\ arc = NoArc

\* the trees the generator can draw, of up to n nodes: the root at depth 0,
\* every later node at most one level below the node before it, and only a
\* group has nodes below it
RECURSIVE Trees(_)
Trees(n) ==
    IF n = 1 THEN { << [depth |-> 0, group |-> g] >> : g \in BOOLEAN }
    ELSE Trees(n - 1) \cup
         { Append(t, [depth |-> d, group |-> g]) :
             t \in { u \in Trees(n - 1) : Len(u) = n - 1 /\ u[1].group },
             d \in 1..(n - 1), g \in BOOLEAN }

ValidTree(t) ==
    \A i \in 2..Len(t) :
        /\ t[i].depth <= t[i - 1].depth + 1
        /\ t[i].depth > t[i - 1].depth => t[i - 1].group

\* GeneratedReadout(...) drawing the tree; its point table
Generate(tree) ==
    /\ enc.op = "none"
    /\ ValidTree(tree)
    /\ enc' = [op |-> "generate", tree |-> tree, points |-> GeneratedPoints(tree)]
    /\ UNCHANGED <<pool, mem, drv, grp, arc>>

\* readout.iter_points(p.start, p.end, p.depth) and iter_point_hits(p.start,
\* p.end, p.depth) for the point p of row i of a generated readout
IterPoints(tree, i) ==
    /\ enc.op = "none"
    /\ ValidTree(tree)
    /\ i <= Len(tree)
    /\ LET points == GeneratedPoints(tree)
           point_hits == GeneratedPointHits(tree)
           p == points[i]
       IN  enc' = [op |-> "iter_points", tree |-> tree, i |-> i,
                   points |-> points, point_hits |-> point_hits,
                   sub_points |-> PuppetReadout_iter_points(points, p.start, p.end,
                                                            p.depth),
                   sub_point_hits |-> PuppetReadout_iter_points(point_hits, p.start,
                                                                p.end, p.depth)]
    /\ UNCHANGED <<pool, mem, drv, grp, arc>>

\* the names, descriptions and value lists an axis is declared with
AxisNames == { <<"a">>, <<"a", "b">> }
AxisDescriptions == { <<"c">>, <<"b", "c">> }
AxisValues == {1, 3, 12, 23}
RECURSIVE ValueLists(_)
ValueLists(n) ==
    IF n = 0 THEN { <<>> }
    ELSE ValueLists(n - 1) \cup
         { Append(l, v) : l \in { m \in ValueLists(n - 1) : Len(m) = n - 1 },
                          v \in AxisValues }
AxisArgs == [name : AxisNames, description : AxisDescriptions,
             values : ValueLists(MaxAxisSize - 1) \ { <<>> }]

\* the same coverpoint declared twice, with add_axis(a) and with add_axis(b)
AddAxis(a, b) ==
    /\ enc.op = "none"
    /\ LET axis_a == Axis_init(a.name, a.description, a.values)
           axis_b == Axis_init(b.name, b.description, b.values)
       IN  enc' = [op |-> "axis", args |-> <<a, b>>, axes |-> <<axis_a, axis_b>>,
                   def_sha |-> <<chain_def(axis_a), chain_def(axis_b)>>]
    /\ UNCHANGED <<pool, mem, drv, grp, arc>>

\* each function is applied once, to inputs drawn when it is applied
EncNext ==
    \/ enc.op = "none" /\ \E a \in AxisArgs, b \in AxisArgs : AddAxis(a, b)
    \/ enc.op = "none" /\ \E sizes \in Shapes(MaxAxes), base \in AxisValueStarts,
          i \in 0..(MaxAxisSize ^ MaxAxes) : Buckets(sizes, base, i)
    \/ enc.op = "none" /\ \E tree \in Trees(MaxNodes) : Generate(tree)
    \/ enc.op = "none" /\ \E tree \in Trees(MaxNodes), i \in 1..MaxNodes :
          IterPoints(tree, i)

EncSpec == EncInit /\ [][EncNext]_vars

(***************************************************************************)
(* The stores on their own: records written to one archive and read back.  *)
(* The three readouts are one of each fingerprint pair or any mix of them, *)
(* each with its samples in its first bucket.                              *)
(***************************************************************************)
StoreReadouts == { r \in Readouts : r.bucket_hits[1] = MaxSamples }

StoreInit ==
    /\ pool \in [DOMAIN Slots -> StoreReadouts]
    /\ mem = [op |-> "none", live |-> FALSE, obj |-> NoObj, raised |-> FALSE,
              everRaised |-> FALSE, lo |-> 0, hi |-> 0]
    /\ drv = [op |-> "none", n |-> 0, limit |-> 0, res |-> [outcome |-> "none"]]
    /\ grp = [done |-> FALSE, order |-> <<1, 2, 3>>, left |-> NoTables,
              right |-> NoTables, flat |-> NoTables, ref |-> NoTables]
    /\ enc = NoEnc
    /\ arc = NoArc

\* ArchiveWriter(path).write(readout of slot s); the reference returned is
\* that of the record appended
ArchiveWrite(s) ==
    /\ drv.op = "none"
    /\ Len(arc.written) < MaxWrites
    /\ arc' = [archive |-> ArchiveWriter_write(arc.archive, FullReadout(pool[s])),
               written |-> Append(arc.written, FullReadout(pool[s])),
               read |-> NoRead]
    /\ UNCHANGED <<pool, mem, drv, grp, enc>>

\* ArchiveReader(path).read(rec_ref) for a reference a write returned
ArchiveRead(rec_ref) ==
    /\ drv.op = "none"
    /\ rec_ref <= Len(arc.written)
    /\ arc' = [arc EXCEPT !.read = [ref |-> rec_ref,
                                    readout |-> ArchiveReader_read(arc.archive, rec_ref)]]
    /\ UNCHANGED <<pool, mem, drv, grp, enc>>

\* the source and source_key a caller passes: None, the empty string, a name
Sources == { NoSource, <<>>, <<"nightly">> }
SourceKeys == { NoneVal, "", "seed_1" }

\* merge_sql_direct(output, file 1 .. file n, source=, source_key=)
\* what a caller may hand in for a database: a path with nothing at it, a
\* directory, a database without rows, a database with a definition row only
DefectKinds == {"missing", "directory", "no_definition", "no_run"}
Defective(kind, readout) ==
    CASE kind = "missing" -> NoFile
      [] kind = "directory" -> Directory
      [] kind = "no_definition" -> EmptyStore
      [] kind = "no_run" -> [exists |-> TRUE, definition |-> <<[sha |-> readout.def_sha]>>,
                             run |-> <<>>]
\* an archive whose record file holds no line
NoRecordArchive(readout) ==
    [exists |-> TRUE, definition |-> <<[def_sha |-> readout.def_sha]>>, record |-> <<>>]

\* merge_sql_direct(output, file 1 .. file n) where file k is defective
SqlMergeDefective(n, k, kind, max_attached, parallel) ==
    /\ drv.op = "none" /\ arc = NoArc
    /\ k <= n
    /\ LET input_paths == [SqlInputs(n) EXCEPT ![k] = Defective(kind, InputAt(k))]
       IN  drv' = [op |-> "sql_defective", n |-> n, limit |-> max_attached,
                   res |-> merge_sql_direct(NoFile, input_paths, NoSource, NoneVal,
                                            parallel, max_attached),
                   k |-> k, kind |-> kind, parallel |-> parallel]
    /\ UNCHANGED <<pool, mem, grp, enc, arc>>

\* merge_archive_direct(output, archive 1 .. archive n) where the unit of
\* work on archive k raises
ArchiveMergeDefective(n, k, batch_size, parallel) ==
    /\ drv.op = "none" /\ arc = NoArc
    /\ k <= n
    /\ LET input_paths == [ArchiveInputs(n) EXCEPT ![k] = NoRecordArchive(InputAt(k))]
       IN  drv' = [op |-> "archive_defective", n |-> n, limit |-> batch_size,
                   res |-> merge_archive_direct(NoArchive, input_paths, NoSource,
                                                NoneVal, parallel, 1, batch_size),
                   k |-> k, kind |-> "no_record", parallel |-> parallel]
    /\ UNCHANGED <<pool, mem, grp, enc, arc>>

SqlMergeSourced(n, max_attached, source, source_key) ==
    /\ drv.op = "none" /\ arc = NoArc
    /\ drv' = [op |-> "sql", n |-> n, limit |-> max_attached,
               res |-> merge_sql_direct(NoFile, SqlInputs(n), source, source_key,
                                        TRUE, max_attached),
               source |-> source, source_key |-> source_key]
    /\ UNCHANGED <<pool, mem, grp, enc, arc>>

\* merge_archive_direct(output, archive 1 .. archive n, source=, source_key=,
\* batch_size=)
ArchiveMergeSourced(n, batch_size, source, source_key) ==
    /\ drv.op = "none" /\ arc = NoArc
    /\ drv' = [op |-> "archive", n |-> n, limit |-> batch_size,
               res |-> merge_archive_direct(NoArchive, ArchiveInputs(n), source,
                                            source_key, FALSE, 1, batch_size),
               source |-> source, source_key |-> source_key]
    /\ UNCHANGED <<pool, mem, grp, enc, arc>>

\* where output_path points: at input k (1..n), at a path of its own with
\* nothing at it (0), or at a path of its own that holds an earlier store (-1)
OutputChoices(n) == (-1)..n

\* what is at output_path before the call
SqlPrev(input_paths, out) ==
    IF out = 0 THEN NoFile
    ELSE IF out = -1 THEN SQLWriter_write(NoFile, FullReadout(pool[1]))
    ELSE input_paths[out]
ArchivePrev(input_paths, out) ==
    IF out = 0 THEN NoArchive
    ELSE IF out = -1 THEN ArchiveWriter_write(NoArchive, FullReadout(pool[1]))
    ELSE input_paths[out]

\* the databases at the input paths once merge_sql_direct has unlinked
\* output_path and created the empty output there: that is what it attaches
AttachedInputs(input_paths, out) ==
    [i \in 1..Len(input_paths) |-> IF i = out THEN EmptyStore ELSE input_paths[i]]

\* merge_sql_direct(output_path, *input_paths) by path: the inputs are
\* validated as they are, then attached as AttachedInputs
merge_sql_direct_at(input_paths, out, max_attached) ==
    LET prev == SqlPrev(input_paths, out)
        validated == merge_sql_direct(prev, input_paths, NoSource, NoneVal, TRUE,
                                      max_attached)
    IN  IF validated.outcome = "ValueError" THEN validated
        ELSE merge_sql_direct(prev, AttachedInputs(input_paths, out), NoSource,
                              NoneVal, TRUE, max_attached)

\* what is at the input paths after a call that left `output` at output_path
InputsAfter(input_paths, out, output) ==
    [i \in 1..Len(input_paths) |-> IF i = out THEN output ELSE input_paths[i]]

\* merge_sql_direct(output_path, file 1 .. file n)
SqlMergeAt(n, out, max_attached) ==
    /\ drv.op = "none" /\ arc = NoArc
    /\ out <= n
    /\ LET input_paths == SqlInputs(n)
           res == merge_sql_direct_at(input_paths, out, max_attached)
       IN  drv' = [op |-> "sql_at", n |-> n, limit |-> max_attached, res |-> res,
                   out |-> out, before |-> input_paths,
                   after |-> InputsAfter(input_paths, out, res.output)]
    /\ UNCHANGED <<pool, mem, grp, enc, arc>>

\* merge_archive_direct(output_path, archive 1 .. archive n): the inputs are
\* read before ArchiveWriter(output_path) appends the merged record to what
\* is at output_path
ArchiveMergeAt(n, out, batch_size) ==
    /\ drv.op = "none" /\ arc = NoArc
    /\ out <= n
    /\ LET input_paths == ArchiveInputs(n)
           res == merge_archive_direct(ArchivePrev(input_paths, out), input_paths,
                                       NoSource, NoneVal, FALSE, 1, batch_size)
       IN  drv' = [op |-> "archive_at", n |-> n, limit |-> batch_size, res |-> res,
                   out |-> out, before |-> input_paths,
                   after |-> InputsAfter(input_paths, out, res.output)]
    /\ UNCHANGED <<pool, mem, grp, enc, arc>>

\* the batched path of merge_sql_direct(output, path 1 .. path n) up to the
\* calls of _merge_sql_batch: the tasks it builds, by the paths they hold
SqlPartition(n, max_attached) ==
    /\ drv.op = "none" /\ arc = NoArc
    /\ n > MAX_ATTACH_of(max_attached)
    /\ LET tasks == BatchTasks([i \in 1..n |-> i], MAX_ATTACH_of(max_attached))
       IN  drv' = [op |-> "sql_batches", n |-> n, limit |-> max_attached,
                   res |-> [outcome |-> "none"], batches |-> tasks,
                   nested |-> [k \in 1..Len(tasks) |->
                                  NestedBatched(tasks[k], max_attached)]]
    /\ UNCHANGED <<pool, mem, grp, enc, arc>>

\* SQLWriter(engine).write(readout) for every readout, in order
RECURSIVE WriteAll(_, _)
WriteAll(store, readouts) ==
    IF readouts = <<>> THEN store
    ELSE WriteAll(SQLWriter_write(store, FullReadout(Head(readouts))), Tail(readouts))

\* how many records each listed file holds
Layouts == UNION { [1..k -> 0..MaxRecords] : k \in 1..MaxFiles }

\* the files of a layout: the inputs are written file after file, counts[i]
\* of them to file i; a file without records is an empty database, or a path
\* nothing was created at
FilesOf(counts, created) ==
    [i \in 1..Len(counts) |->
        LET lo == SumSeq(SubSeq(counts, 1, i - 1)) + 1
            hi == SumSeq(SubSeq(counts, 1, i))
        IN  IF counts[i] = 0 /\ ~created THEN NoFile
            ELSE WriteAll(EmptyStore, InputReadouts(lo, hi))]

\* SQLAccessor.merge_files(file 1, .., file k)
MergeFiles(counts, created) ==
    /\ drv.op = "none" /\ arc = NoArc
    /\ (\A i \in 1..Len(counts) : counts[i] > 0) => created
    /\ LET merged == merge_files(FilesOf(counts, created))
       IN  drv' = [op |-> "merge_files", n |-> SumSeq(counts), limit |-> 0,
                   res |-> [outcome |-> IF merged.raised THEN "RuntimeError" ELSE "ok",
                            merged |-> merged],
                   counts |-> counts]
    /\ UNCHANGED <<pool, mem, grp, enc, arc>>

\* merge_sql_direct(output_path, file 1, .., file k) on files that hold one
\* or more records each, under a limit that lets the call return;
\* output_path holds nothing or an earlier database
SqlMergeFiles(counts, earlier, max_attached) ==
    /\ drv.op = "none" /\ arc = NoArc
    /\ \A i \in 1..Len(counts) : counts[i] > 0
    /\ Len(counts) = 1 \/ MAX_ATTACH_of(max_attached) > 1
    /\ LET input_paths == FilesOf(counts, TRUE)
           prev == IF earlier THEN SQLWriter_write(NoFile, FullReadout(pool[1]))
                   ELSE NoFile
       IN  drv' = [op |-> "sql_files", n |-> Len(counts), limit |-> max_attached,
                   res |-> merge_sql_direct(prev, input_paths, NoSource, NoneVal,
                                            FALSE, max_attached),
                   counts |-> counts, inputs |-> input_paths, earlier |-> earlier]
    /\ UNCHANGED <<pool, mem, grp, enc, arc>>

StoreNext ==
    \/ \E s \in DOMAIN Slots : ArchiveWrite(s)
    \/ drv.op = "none" /\ arc = NoArc
          /\ \E counts \in Layouts, created \in BOOLEAN : MergeFiles(counts, created)
    \/ drv.op = "none" /\ arc = NoArc
          /\ \E counts \in Layouts, earlier \in BOOLEAN,
                max_attached \in MaxAttachedReports :
                  SqlMergeFiles(counts, earlier, max_attached)
    \/ drv.op = "none" /\ arc = NoArc
          /\ \E n \in 1..MaxInputs, out \in OutputChoices(MaxInputs),
                max_attached \in MaxAttachedReports : SqlMergeAt(n, out, max_attached)
    \/ drv.op = "none" /\ arc = NoArc
          /\ \E n \in 1..MaxInputs, out \in OutputChoices(MaxInputs),
                batch_size \in BatchSizes : ArchiveMergeAt(n, out, batch_size)
    \/ drv.op = "none" /\ arc = NoArc
          /\ \E n \in 1..MaxInputs, max_attached \in MaxAttachedReports :
                SqlPartition(n, max_attached)
    \/ \E rec_ref \in 1..MaxWrites : ArchiveRead(rec_ref)
    \/ drv.op = "none" /\ arc = NoArc
          /\ \E n \in 0..MaxInputs, max_attached \in MaxAttachedReports,
                source \in Sources, source_key \in SourceKeys :
                  SqlMergeSourced(n, max_attached, source, source_key)
    \/ drv.op = "none" /\ arc = NoArc
          /\ \E n \in 1..MaxInputs, k \in 1..MaxInputs, kind \in DefectKinds,
                max_attached \in MaxAttachedReports, parallel \in BOOLEAN :
                  SqlMergeDefective(n, k, kind, max_attached, parallel)
    \/ drv.op = "none" /\ arc = NoArc
          /\ \E n \in 1..MaxInputs, k \in 1..MaxInputs, batch_size \in BatchSizes,
                parallel \in BOOLEAN : ArchiveMergeDefective(n, k, batch_size, parallel)
    \/ drv.op = "none" /\ arc = NoArc
          /\ \E n \in 1..MaxInputs, batch_size \in BatchSizes,
                source \in Sources, source_key \in SourceKeys :
                  ArchiveMergeSourced(n, batch_size, source, source_key)

StoreSpec == StoreInit /\ [][StoreNext]_vars

(***************************************************************************)
(* The parallel paths on their own, over every triple of sampled readouts:  *)
(* the worker threads of merge_archive_direct end in any order, the batch   *)
(* processes of merge_sql_direct are collected by executor.map, which hands  *)
(* the results back in the order of the batches.                            *)
(***************************************************************************)
\* Each action makes the call twice on the same inputs, to two fresh output
\* paths: with parallel=True (res) and with parallel=False (serial).
\* merge_archive_direct(output, archive 1, 2, 3), the units of work of the
\* parallel call ending in the order p
ArchiveMergeScheduled(p) ==
    /\ drv.op = "none"
    /\ drv' = [op |-> "archive", n |-> Len(Slots), limit |-> 0,
               res |-> ArchiveMergeInOrder(NoArchive, ArchiveInputs(Len(Slots)),
                                           NoSource, NoneVal,
                                           [i \in 1..Len(Slots) |-> p[i]]),
               serial |-> merge_archive_direct(NoArchive, ArchiveInputs(Len(Slots)),
                                               NoSource, NoneVal, FALSE, 1, 0),
               order |-> [i \in 1..Len(Slots) |-> p[i]]]
    /\ UNCHANGED <<pool, mem, grp, enc, arc>>

\* merge_archive_direct(output, archive 1 .. archive n, batch_size=) where
\* the inputs are batched, worker first_done of every pool of the parallel
\* call ending first
ArchiveMergeParallel(n, batch_size, first_done) ==
    /\ drv.op = "none"
    /\ batch_size > 0 /\ n > batch_size
    /\ drv' = [op |-> "archive", n |-> n, limit |-> batch_size,
               res |-> merge_archive_direct(NoArchive, ArchiveInputs(n), NoSource,
                                            NoneVal, TRUE, first_done, batch_size),
               serial |-> merge_archive_direct(NoArchive, ArchiveInputs(n), NoSource,
                                               NoneVal, FALSE, 1, batch_size),
               order |-> CompletionOrder(n, TRUE, first_done)]
    /\ UNCHANGED <<pool, mem, grp, enc, arc>>

\* merge_sql_direct(output, file 1 .. file n) where the inputs are batched
SqlMergeParallel(n, max_attached) ==
    /\ drv.op = "none"
    /\ n > MAX_ATTACH_of(max_attached)
    /\ drv' = [op |-> "sql", n |-> n, limit |-> max_attached,
               res |-> merge_sql_direct(NoFile, SqlInputs(n), NoSource, NoneVal,
                                        TRUE, max_attached),
               serial |-> merge_sql_direct(NoFile, SqlInputs(n), NoSource, NoneVal,
                                           FALSE, max_attached),
               order |-> [i \in 1..n |-> i]]
    /\ UNCHANGED <<pool, mem, grp, enc, arc>>

SchedNext ==
    \/ drv.op = "none" /\ \E p \in Permutations3 : ArchiveMergeScheduled(p)
    \/ drv.op = "none"
          /\ \E n \in 1..MaxInputs, batch_size \in BatchSizes,
                first_done \in FirstDone :
                  ArchiveMergeParallel(n, batch_size, first_done)
    \/ drv.op = "none"
          /\ \E n \in 1..MaxInputs, max_attached \in MaxAttachedReports :
                SqlMergeParallel(n, max_attached)

SchedSpec == Init /\ [][SchedNext]_vars

(***************************************************************************)
(* Properties.                                                             *)
(***************************************************************************)
\* sum of the hit counts inputs 1..n have at bucket position i
RECURSIVE InputHitsSum(_, _)
InputHitsSum(n, i) ==
    IF n = 0 THEN 0
    ELSE (IF i <= Len(InputAt(n).bucket_hits) THEN InputAt(n).bucket_hits[i] ELSE 0)
         + InputHitsSum(n - 1, i)

\* the bucket-hit table whose row i is the sum of inputs 1..n at i
SummedRows(n) ==
    [i \in 1..NumBuckets(InputAt(1).def_sha) |->
        [start |-> i - 1, hits |-> InputHitsSum(n, i)]]

\* C1: a MergeReadout built from a master and merged, in the constructor
\* and/or by later merge() calls, with compatible readouts only has the
\* bucket-hit table hits[i] = sum of the inputs' hits[i] at every offset i,
\* whatever the goal targets are.
C1_BucketHitsAreSums ==
    (mem.live /\ ~mem.everRaised) =>
        MergeReadout_iter_bucket_hits(mem.obj) = SummedRows(mem.hi)

\* a later merge() call has brought a bucket's count above its positive target
C1_Witness ==
    /\ mem.live /\ ~mem.everRaised /\ mem.op = "merge"
    /\ \E i \in 1..Len(mem.obj.bucket_hits) :
          /\ mem.obj.bucket_targets[i] > 0
          /\ mem.obj.bucket_hits[i] > mem.obj.bucket_targets[i]

\* the goal target of the bucket at 1-based position i of a definition
TargetAt(def_sha, i) ==
    iter_goals(def_sha)[iter_bucket_goals(def_sha)[i].goal + 1].target

\* the hit counts of a bucket-hit table, by 1-based position
HitsOf(rows) == [i \in 1..Len(rows) |-> rows[i].hits]

\* the roll-up of bucket positions lo+1..hi from merged hit counts: over the
\* buckets with target > 0, the capped counts added up, the buckets with a
\* positive count, and the buckets whose capped count equals the target
RollupOf(def_sha, merged_hits, lo, hi) ==
    LET range == { i \in (lo + 1)..hi : i <= Len(merged_hits) /\ TargetAt(def_sha, i) > 0 }
        capped(i) == Min(merged_hits[i], TargetAt(def_sha, i))
    IN  [hits |-> SumSeq([k \in 1..(hi - lo) |->
                            IF (lo + k) \in range THEN capped(lo + k) ELSE 0]),
         hit_buckets |-> Cardinality({ i \in range : merged_hits[i] > 0 }),
         full_buckets |-> Cardinality({ i \in range :
                                         capped(i) = TargetAt(def_sha, i) })]

RollupRows(def_sha, merged_hits) ==
    LET points == iter_points(def_sha) IN
    [p \in 1..Len(points) |->
        LET r == RollupOf(def_sha, merged_hits, points[p].bucket_start,
                          points[p].bucket_end)
        IN  [start |-> points[p].start, depth |-> points[p].depth,
             hits |-> r.hits, hit_buckets |-> r.hit_buckets,
             full_buckets |-> r.full_buckets]]

\* what adding up the roll-ups stored with inputs 1..n would give for hits
RECURSIVE InputRollupHitsSum(_, _)
InputRollupHitsSum(n, p) ==
    IF n = 0 THEN 0
    ELSE Readout_iter_point_hits(InputAt(n))[p].hits + InputRollupHitsSum(n - 1, p)

\* C2: after any merge the roll-up of every point, leaf or group, is the one
\* recomputed from the merged bucket hits over the point's bucket range: for
\* buckets with target > 0, hits adds up min(merged_hits, target),
\* hit_buckets counts the buckets with merged_hits > 0 and full_buckets
\* those with min(merged_hits, target) = target.
C2_RollupRecomputed ==
    HasResult =>
        Result.tables.point_hits =
            RollupRows(Result.def_sha, HitsOf(Result.tables.bucket_hits))

\* a direct SQL merge whose group roll-up is below the sum of the roll-ups
\* stored with its inputs: the merged count went over the target
C2_Witness ==
    /\ drv.op = "sql" /\ drv.res.outcome = "ok"
    /\ Result.tables.point_hits[1].hits < InputRollupHitsSum(drv.n, 1)
    /\ Result.tables.point_hits[1].hits > 0

\* C3: in every merged result a bucket whose goal target is <= 0 adds
\* nothing to its point's hits, hit_buckets or full_buckets: each is bounded
\* by what the buckets with a positive target give; the bucket's own row of
\* the merged bucket-hit table still holds the sum of the inputs' counts.
C3_NonPositiveTargetExcluded ==
    HasResult =>
        LET def_sha == Result.def_sha
            merged == HitsOf(Result.tables.bucket_hits)
            points == iter_points(def_sha)
            legal(p) == { i \in (points[p].bucket_start + 1)..points[p].bucket_end :
                            i <= Len(merged) /\ TargetAt(def_sha, i) > 0 }
        IN  /\ \A p \in 1..Len(points) :
                  LET row == Result.tables.point_hits[p] IN
                  /\ row.hits <= SumSeq([i \in 1..Len(merged) |->
                                           IF i \in legal(p) THEN merged[i] ELSE 0])
                  /\ row.hit_buckets <= Cardinality({ i \in legal(p) : merged[i] > 0 })
                  /\ row.full_buckets <=
                         Cardinality({ i \in legal(p) : merged[i] >= TargetAt(def_sha, i) })
                  /\ row.hits >= 0 /\ row.hit_buckets >= 0 /\ row.full_buckets >= 0
            /\ (\A n \in 1..ResultInputs : Compatible(InputAt(1), InputAt(n))) =>
                  \A i \in 1..NumBuckets(def_sha) :
                      TargetAt(def_sha, i) <= 0 => merged[i] = InputHitsSum(ResultInputs, i)

\* an archive merge of compatible inputs whose only bucket has the illegal goal and
\* was hit by more than one input: the point's roll-up is all zero
C3_Witness ==
    /\ drv.op = "archive" /\ drv.res.outcome = "ok"
    /\ \A n \in 1..drv.n : Compatible(InputAt(1), InputAt(n))
    /\ \E i \in 1..NumBuckets(Result.def_sha) :
          /\ TargetAt(Result.def_sha, i) < 0
          /\ Result.tables.bucket_hits[i].hits > 1
    /\ \A p \in 1..Len(Result.tables.point_hits) :
          /\ Result.tables.point_hits[p].hits = 0
          /\ Result.tables.point_hits[p].hit_buckets = 0
          /\ Result.tables.point_hits[p].full_buckets = 0

\* C4: MergeReadout(master, *others) and merge(*readouts) raise RuntimeError
\* exactly when some supplied readout differs from the master in its
\* definition fingerprint or in its record fingerprint, and succeed when all
\* supplied readouts match the master in both.
C4_RaisesIffIncompatible ==
    mem.op \in {"init", "merge"} =>
        (mem.raised <=>
            \E i \in mem.lo..mem.hi :
                \/ InputAt(i).def_sha # mem.obj.master.def_sha
                \/ InputAt(i).rec_sha # mem.obj.master.rec_sha)

\* a merge() call on a live object raised over a readout that shares the
\* master's definition fingerprint and differs in the record fingerprint only
C4_Witness ==
    /\ mem.op = "merge" /\ mem.raised
    /\ \A i \in mem.lo..mem.hi : InputAt(i).def_sha = mem.obj.master.def_sha
    /\ \E i \in mem.lo..mem.hi : InputAt(i).rec_sha # mem.obj.master.rec_sha

\* some two of the inputs 1..n differ in a fingerprint
InputsDiffer(n) == \E i, j \in 1..n : ~Compatible(InputAt(i), InputAt(j))

\* C5: merge_sql_direct raises RuntimeError and leaves no merged record
\* whenever two of its inputs differ in definition fingerprint or in record
\* fingerprint, for every input count, every position of the differing
\* input and every attach limit, batched or not.
C5_SqlRejectsIncompatible ==
    (drv.op = "sql" /\ InputsDiffer(drv.n)) =>
        /\ drv.res.outcome \in RuntimeErrors
        /\ (drv.res.output.exists => drv.res.output.run = <<>>)

\* three inputs against an attach limit of two: the first batch holds two
\* compatible inputs, the second the input that differs from them
C5_Witness ==
    /\ drv.op = "sql" /\ drv.n = 3 /\ MAX_ATTACH_of(drv.limit) = 2
    /\ Compatible(InputAt(1), InputAt(2)) /\ ~Compatible(InputAt(1), InputAt(3))
    /\ drv.res.outcome = "RuntimeError"
    /\ ~drv.res.output.exists

\* C6 (as the specification states it): merge_archive_direct raises, commits
\* no merged record and leaves no output archive whenever two of its input
\* archives differ in definition or record fingerprint.
C6_ArchiveRejectsIncompatible ==
    (drv.op = "archive" /\ InputsDiffer(drv.n)) =>
        /\ drv.res.outcome # "ok"
        /\ ~drv.res.output.exists

\* C7 (as the specification states it): a merge() call that raises leaves
\* the MergeReadout's bucket-hit table as it was before the call.
C7_NoPartialMerge ==
    [][(mem'.op = "merge" /\ mem'.raised) =>
          MergeReadout_iter_bucket_hits(mem'.obj) = MergeReadout_iter_bucket_hits(mem.obj)]_vars

\* C8: for mutually compatible readouts A, B, C, taken in any order X, Y, Z,
\* the bucket-hit and point-hit tables of merge(merge(X, Y), Z), of
\* merge(X, merge(Y, Z)) and of merge(X, Y, Z) in one call are identical, and
\* equal to those of merge(A, B, C).
C8_CommutativeAssociative ==
    grp.done =>
        /\ grp.left = grp.flat
        /\ grp.right = grp.flat
        /\ grp.flat = grp.ref

\* three readouts with three different hit lists, regrouped with the last
\* one as master
C8_Witness ==
    /\ grp.done
    /\ grp.order = <<3, 1, 2>>
    /\ pool[1].bucket_hits # pool[2].bucket_hits
    /\ pool[2].bucket_hits # pool[3].bucket_hits
    /\ pool[1].bucket_hits # pool[3].bucket_hits
    /\ \E i \in 1..Len(grp.flat.bucket_hits) : grp.flat.bucket_hits[i].hits > 0

\* C9: given the same input readouts, one per file, whenever
\* merge_sql_direct or merge_archive_direct leaves a record and
\* MergeReadout(input 1, inputs 2..n) is built, the record's bucket-hit and
\* point-hit tables are those of the MergeReadout; so the three agree with
\* one another.
C9_DriversAgree ==
    (drv.op # "none" /\ drv.res.outcome = "ok") =>
        LET merged == MergeReadout_init(InputAt(1), InputReadouts(2, drv.n))
        IN  merged.live => Result.tables = Tables(merged.obj)

\* an archive merge of three or more compatible inputs that brought a
\* bucket over its target: raw count 3 or more, roll-up capped at 2
C9_Witness ==
    /\ drv.op = "archive" /\ drv.res.outcome = "ok" /\ drv.n >= 3
    /\ ~InputsDiffer(drv.n)
    /\ Result.tables.bucket_hits[1].hits >= 3
    /\ Result.tables.point_hits[1].hits = 2

\* C10: when the input count exceeds the attach limit, the tables of the
\* record the batched path of merge_sql_direct leaves equal those of the
\* same inputs merged in a single non-batched step.
C10_BatchingTransparent ==
    (/\ drv.op = "sql" /\ drv.res.outcome = "ok"
     /\ drv.n > MAX_ATTACH_of(drv.limit)) =>
        LET single == SqlStandardMerge(SqlInputs(drv.n), NoSource, NoneVal)
        IN  /\ single.outcome = "ok"
            /\ SqlTables(drv.res.output, drv.res.run_id) =
                   SqlTables(single.output, single.run_id)

\* three inputs against an attach limit of two, the input that is alone in
\* the second batch carrying a hit
C10_Witness ==
    /\ drv.op = "sql" /\ drv.res.outcome = "ok"
    /\ drv.n = 3 /\ MAX_ATTACH_of(drv.limit) = 2
    /\ \E i \in 1..Len(InputAt(3).bucket_hits) : InputAt(3).bucket_hits[i] > 0
    /\ InputAt(1).bucket_hits # InputAt(2).bucket_hits

\* C11 (as the specification states it): after merge_sql_direct raises once
\* it has begun building the output, no file exists at output_path.
C11_NoOutputAfterRaise ==
    (drv.op = "sql" /\ drv.res.outcome \in RuntimeErrors) => ~drv.res.output.exists

\* C12 (as the specification states it): when merge_sql_direct returns or
\* raises, no temporary batch database is left on disk.
C12_NoTempsLeft ==
    drv.op = "sql" => drv.res.temps = <<>>

\* the position within axis k of the bucket at offset i when the last axis
\* varies fastest: (i div the sizes of the later axes) mod the axis size
PositionInAxis(sizes, k, i) ==
    (i \div SeqProduct(SubSeq(sizes, k + 1, Len(sizes)))) % sizes[k]

\* C13: for every point shape the combination at flat offset i of the
\* cross product is the one with the last axis varying fastest, a point
\* without axes has exactly one bucket, and PointAccess.buckets decodes
\* offset i to exactly that combination.
C13_CodecRoundTrip ==
    enc.op = "buckets" =>
        /\ Len(enc.combinations) = SeqProduct(enc.sizes)
        /\ (enc.sizes = <<>> => Len(enc.combinations) = 1)
        /\ \A k \in 1..Len(enc.sizes) :
              enc.combinations[enc.offset + 1][k] =
                  <<k, PositionInAxis(enc.sizes, k, enc.offset)>>
        /\ enc.bucket_axis_values = enc.combinations[enc.offset + 1]

\* the last bucket of a point with three axes of sizes 2, 3, 2 whose axis
\* values do not start the table
C13_Witness ==
    /\ enc.op = "buckets" /\ enc.sizes = <<2, 3, 2>> /\ enc.base = 2
    /\ enc.offset = 11
    /\ enc.bucket_axis_values = << <<1, 1>>, <<2, 2>>, <<3, 1>> >>

\* C14 (as the specification states it): after any sequence of writes to one
\* archive the definition file holds one line per distinct fingerprint
\* written, and reading any returned reference gives the fingerprints and
\* tables of the readout that was written (the definition tables are those
\* of the fingerprint).
C14_ArchiveRoundTrip ==
    /\ \A d, e \in 1..Len(arc.archive.definition) :
          arc.archive.definition[d].def_sha = arc.archive.definition[e].def_sha
            => d = e
    /\ { arc.archive.definition[d].def_sha : d \in 1..Len(arc.archive.definition) }
         = { arc.written[k].def_sha : k \in 1..Len(arc.written) }
    /\ arc.read.ref # 0 =>
          LET written == arc.written[arc.read.ref]
              readout == arc.read.readout
          IN  /\ ~readout.raised
              /\ readout.def_sha = written.def_sha
              /\ readout.rec_sha = written.rec_sha
              /\ readout.point_hits = written.point_hits
              /\ readout.bucket_hits = written.bucket_hits

\* the record a sourced merge left at its output, read back
MergedRecord ==
    IF drv.op = "sql" THEN SQLReader_read(drv.res.output, drv.res.run_id)
    ELSE ArchiveReader_read(drv.res.output, drv.res.record_offset)

\* C15 (as the specification states it): the record of a merge that returned
\* carries "Merged_" + timestamp as its source exactly when the caller passed
\* no source, the caller's source otherwise, and the caller's source_key or
\* the empty string; batched or not.
C15_OutputProvenance ==
    (drv.op \in {"sql", "archive"} /\ drv.res.outcome = "ok") =>
        /\ MergedRecord.source = (IF drv.source = NoSource
                                  THEN <<"Merged_", "TIMESTAMP">> ELSE drv.source)
        /\ MergedRecord.source_key = (IF drv.source_key = NoneVal THEN ""
                                      ELSE drv.source_key)

\* the rows of the subtree below row i of a point table in tree order: the
\* rows that follow it up to the next row at its depth or above
Descendants(points, i) ==
    { j \in (i + 1)..Len(points) :
        \A k \in (i + 1)..j : points[k].depth > points[i].depth }
IsLeafRow(point) == point.description = "Point"
LeafDescendants(points, i) == { j \in Descendants(points, i) : IsLeafRow(points[j]) }

\* C16 (as the specification states it): a leaf has end = start + 1, a
\* group's start is that of its first descendant, and end - start of a group
\* is the number of its descendant leaves.
C16_RangeCountsLeaves ==
    enc.op = "generate" =>
        \A i \in 1..Len(enc.points) :
            LET point == enc.points[i] IN
            IF IsLeafRow(point) THEN point.end = point.start + 1
            ELSE /\ Descendants(enc.points, i) # {} =>
                      enc.points[i + 1].start = point.start
                 /\ point.end - point.start
                      = Cardinality(LeafDescendants(enc.points, i))

\* C16 (amended): the sorted table lists the nodes in tree order; a leaf has
\* end = start + 1, a group's start is that of its first descendant, and
\* end - start of a group is one more than the number of its descendants,
\* groups and leaves alike: the group takes an identifier itself, so that a
\* node's row is at index start + depth.
C16_RangeCountsNodes ==
    enc.op = "generate" =>
        /\ Len(enc.points) = Len(enc.tree)
        /\ \A i \in 1..Len(enc.points) :
            LET point == enc.points[i] IN
            /\ point.depth = enc.tree[i].depth
            /\ IsLeafRow(point) = ~enc.tree[i].group
            /\ i = point.start + point.depth + 1
            /\ IF IsLeafRow(point) THEN point.end = point.start + 1
               ELSE /\ Descendants(enc.points, i) # {} =>
                         enc.points[i + 1].start = point.start
                    /\ point.end - point.start
                         = 1 + Cardinality(Descendants(enc.points, i))

\* a group holding a group of two leaves and a leaf: the inner group spans
\* three identifiers, the outer one five
C16_Witness ==
    /\ enc.op = "generate"
    /\ enc.tree = << [depth |-> 0, group |-> TRUE], [depth |-> 1, group |-> TRUE],
                     [depth |-> 2, group |-> FALSE], [depth |-> 2, group |-> FALSE],
                     [depth |-> 1, group |-> FALSE] >>
    /\ enc.points[1].end = 5 /\ enc.points[2].end = 3
    /\ enc.points[5].start = 3 /\ enc.points[5].end = 4

\* the set of values of a list
Range(l) == { l[i] : i \in 1..Len(l) }

\* C17 (as the specification states it): two declarations of a point whose
\* axes differ in name, description or list of value-names have different
\* Definition fingerprints, and two that agree in all three have the same.
C17_FingerprintDistinguishes ==
    enc.op = "axis" =>
        LET same == /\ enc.axes[1].name = enc.axes[2].name
                    /\ enc.axes[1].description = enc.axes[2].description
                    /\ enc.axes[1].values = enc.axes[2].values
        IN  same <=> (enc.def_sha[1] = enc.def_sha[2])

\* C18: two axes declared with the same name and description and with lists
\* holding the same values, in any order and with any repetition, have the
\* same value-names at the same positions, in ascending string order, and
\* the same fingerprint.
C18_OrderIndependent ==
    enc.op = "axis" =>
        /\ \A x \in 1..2 : \A i, j \in 1..enc.axes[x].size :
              i < j => StrLess(enc.axes[x].values[i], enc.axes[x].values[j])
        /\ \A x \in 1..2 :
              Range(enc.axes[x].values) = { str(v) : v \in Range(enc.args[x].values) }
        /\ ( /\ enc.args[1].name = enc.args[2].name
             /\ enc.args[1].description = enc.args[2].description
             /\ Range(enc.args[1].values) = Range(enc.args[2].values) )
           => /\ enc.axes[1].values = enc.axes[2].values
              /\ enc.axes[1].sha = enc.axes[2].sha
              /\ enc.def_sha[1] = enc.def_sha[2]

\* the values 3 and 12 supplied in both orders: "12" comes before "3"
C18_Witness ==
    /\ enc.op = "axis"
    /\ enc.args[1].values = <<3, 12>> /\ enc.args[2].values = <<12, 3>>
    /\ enc.args[1].name = enc.args[2].name
    /\ enc.args[1].description = enc.args[2].description
    /\ enc.axes[1].values = << <<"1", "2">>, <<"3">> >>
    /\ enc.axes[2].values = enc.axes[1].values

\* C19: when the unit of work on one input archive raises, or a batch of
\* merge_sql_direct holds a database without the rows a merge needs, the call
\* raises and no merged record is written; on the parallel path and on the
\* serial one.
C19_WorkerFailureAborts ==
    /\ drv.op = "archive_defective" =>
          /\ drv.res.outcome # "ok"
          /\ drv.res.output = NoArchive
    /\ (drv.op = "sql_defective" /\ drv.kind \in {"no_definition", "no_run"}
          /\ drv.n > MAX_ATTACH_of(drv.limit)) =>
          /\ drv.res.outcome \in RuntimeErrors
          /\ drv.res.output.run = <<>>

\* three archives merged by the thread pool, the worker of the second raising
C19_Witness ==
    /\ drv.op = "archive_defective" /\ drv.parallel
    /\ drv.n = 3 /\ drv.k = 2 /\ drv.limit = 0
    /\ drv.res.outcome = "StopIteration"

\* C20: merge_sql_direct raises ValueError for no inputs and for a path that
\* does not exist or is not a file, RuntimeError for a database without a
\* definition row or without a run row, wherever the input stands among the
\* others; nothing is at the output path after a ValueError and no run row
\* after a RuntimeError.
C20_SqlNeverSkipsAnInput ==
    /\ (drv.op = "sql" /\ drv.n = 0) =>
          drv.res.outcome = "ValueError" /\ ~drv.res.output.exists
    /\ drv.op = "sql_defective" =>
          IF drv.kind \in {"missing", "directory"}
          THEN drv.res.outcome = "ValueError" /\ ~drv.res.output.exists
          ELSE drv.res.outcome = "RuntimeError" /\ drv.res.output.run = <<>>

\* the last of three databases has a definition row and no run row
C20_Witness ==
    /\ drv.op = "sql_defective" /\ drv.kind = "no_run"
    /\ drv.n = 3 /\ drv.k = 3 /\ drv.limit = 0
    /\ drv.res.outcome = "RuntimeError"

\* C21: SQLAccessor.merge_files returns None exactly when no listed file
\* holds a record; when the records of all files are compatible it returns,
\* and its bucket-hit table is the sum over every record of every file,
\* wherever files without records stand in the list.
C21_MergeFilesSumsAll ==
    drv.op = "merge_files" =>
        LET merged == drv.res.merged IN
        /\ merged.none <=> drv.n = 0
        /\ (/\ drv.n > 0
            /\ \A i, j \in 1..drv.n : Compatible(InputAt(i), InputAt(j))) =>
                /\ ~merged.raised
                /\ MergeReadout_iter_bucket_hits(merged.obj) = SummedRows(drv.n)

\* two records in the first file, none in the second, one in the third
C21_Witness ==
    /\ drv.op = "merge_files" /\ drv.counts = <<2, 0, 1>>
    /\ drv.res.outcome = "ok" /\ ~drv.res.merged.none
    /\ drv.res.merged.obj.bucket_hits[1] = 3 * MaxSamples

\* C22 (as the specification states it): after merge_sql_direct or
\* merge_archive_direct returns or raises, every input store still exists
\* with the content it had, wherever output_path points.
C22_InputsUntouched ==
    drv.op \in {"sql_at", "archive_at"} =>
        /\ drv.after = drv.before
        /\ \A i \in 1..drv.n : drv.after[i].exists

C24_ArchiveReductionTerminates ==
    (drv.op = "archive" /\ drv.n >= 1) => drv.res.outcome = "ok"

\* the paths of all batches, batch after batch
BatchedPaths == Flatten([k \in 1..Len(drv.batches) |-> drv.batches[k].batch_paths])

\* C25 (as the specification states it): when the input count exceeds
\* MAX_ATTACH the inputs are split into consecutive batches of at most
\* MAX_ATTACH - 1 inputs, every input is in exactly one batch, and no batch
\* is batched again when it is merged.
C25_BatchesBelowLimit ==
    drv.op = "sql_batches" =>
        /\ \A k \in 1..Len(drv.batches) :
              Len(drv.batches[k].batch_paths) <= MAX_ATTACH_of(drv.limit) - 1
        /\ BatchedPaths = [i \in 1..drv.n |-> i]
        /\ \A k \in 1..Len(drv.batches) : ~drv.nested[k]

\* C25, amended: the batches hold at most MAX_ATTACH inputs, each but the
\* last exactly MAX_ATTACH and none is empty; taken in order they are the
\* input list, so every input is in exactly one batch; and the merge of a
\* batch is not batched again.
C25_BatchesAtLimit ==
    drv.op = "sql_batches" =>
        /\ \A k \in 1..Len(drv.batches) :
              /\ Len(drv.batches[k].batch_paths) >= 1
              /\ Len(drv.batches[k].batch_paths) <= MAX_ATTACH_of(drv.limit)
              /\ k < Len(drv.batches) =>
                    Len(drv.batches[k].batch_paths) = MAX_ATTACH_of(drv.limit)
        /\ BatchedPaths = [i \in 1..drv.n |-> i]
        /\ \A k \in 1..Len(drv.batches) : ~drv.nested[k]

\* three inputs against MAX_ATTACH = 2: a full batch and a batch of one
C25_Witness ==
    /\ drv.op = "sql_batches" /\ drv.n = 3 /\ MAX_ATTACH_of(drv.limit) = 2
    /\ Len(drv.batches) = 2
    /\ drv.batches[1].batch_paths = <<1, 2>> /\ drv.batches[2].batch_paths = <<3>>

\* C26: whatever order the workers of a parallel merge end in, the call
\* ends as the serial call on the same inputs ends, and where it returns
\* the bucket-hit and point-hit tables of its record are those of the
\* serial call's record.
C26_SchedulingIndependent ==
    /\ drv.op = "archive" =>
          /\ drv.res.outcome = drv.serial.outcome
          /\ drv.res.outcome = "ok" =>
                ArchiveTables(drv.res.output, drv.res.record_offset) =
                    ArchiveTables(drv.serial.output, drv.serial.record_offset)
    /\ drv.op = "sql" =>
          /\ drv.res.outcome = drv.serial.outcome
          /\ drv.res.outcome = "ok" =>
                SqlTables(drv.res.output, drv.res.run_id) =
                    SqlTables(drv.serial.output, drv.serial.run_id)

\* three compatible archives with different hit counts, the worker of the
\* third ending first and that of the first next
C26_Witness ==
    /\ drv.op = "archive" /\ drv.res.outcome = "ok"
    /\ drv.order = <<3, 1, 2>>
    /\ \A i, j \in DOMAIN Slots : Compatible(pool[i], pool[j])
    /\ pool[1].bucket_hits # pool[2].bucket_hits
    /\ pool[2].bucket_hits # pool[3].bucket_hits
    /\ \E i \in 1..Len(pool[3].bucket_hits) : pool[3].bucket_hits[i] > 0

\* C27: after a merge_sql_direct that returned, the output database holds one
\* definition row and one run row, and the definition is the first input's.
C27_OneDefinitionOneRecord ==
    (drv.op = "sql_files" /\ drv.res.outcome = "ok") =>
        /\ Len(drv.res.output.definition) = 1
        /\ Len(drv.res.output.run) = 1
        /\ drv.res.output.definition[1].sha = FirstDefSha(drv.inputs[1])

\* C29: a merge_sql_direct that returned summed the bucket hits of no record
\* whose definition or record fingerprint differs from the fingerprints of
\* the record it wrote.
C29_OnlyValidatedSummed ==
    (drv.op = "sql_files" /\ drv.res.outcome = "ok") =>
        LET written == SQLReader_read(drv.res.output, drv.res.run_id) IN
        \A i \in 1..drv.n : \A rec_ref \in 1..Len(drv.inputs[i].run) :
            LET summed == SQLReader_read(drv.inputs[i], rec_ref) IN
            /\ summed.def_sha = written.def_sha
            /\ summed.rec_sha = written.rec_sha

\* C28: in every merged result each point-hit row lies within the targets of
\* its point: 0 <= full_buckets <= hit_buckets <= target_buckets and
\* 0 <= hits <= target.
C28_RollupWithinTargets ==
    HasResult =>
        LET points == iter_points(Result.def_sha)
            rows == Result.tables.point_hits
        IN  /\ Len(rows) = Len(points)
            /\ \A p \in 1..Len(points) :
                  /\ rows[p].start = points[p].start /\ rows[p].depth = points[p].depth
                  /\ 0 <= rows[p].full_buckets
                  /\ rows[p].full_buckets <= rows[p].hit_buckets
                  /\ rows[p].hit_buckets <= points[p].target_buckets
                  /\ 0 <= rows[p].hits
                  /\ rows[p].hits <= points[p].target

\* an in-memory merge of compatible readouts that took a bucket over its
\* target: the point's hits stand at the point's target
C28_Witness ==
    /\ mem.live /\ ~mem.everRaised /\ mem.hi >= 3
    /\ mem.obj.bucket_hits[1] > mem.obj.bucket_targets[1]
    /\ mem.obj.bucket_targets[1] > 0
    /\ Result.tables.point_hits[1].hits = iter_points(Result.def_sha)[1].target
    /\ Result.tables.point_hits[1].full_buckets =
           iter_points(Result.def_sha)[1].target_buckets

\* C30: in a readout's point table sorted by (start, depth) the row of a
\* point is at position start + depth and the rows stand in the order the
\* tree is walked, parents before children; iter_points and iter_point_hits
\* given a point's start, end and depth yield the rows of the point and of
\* its descendants and no other; the i-th point and point-hit rows carry the
\* same start and depth.
C30_RangeIsSubtree ==
    enc.op = "iter_points" =>
        LET subtree == {enc.i} \cup Descendants(enc.tree, enc.i)
            last == enc.i + Cardinality(Descendants(enc.tree, enc.i))
        IN  /\ Len(enc.points) = Len(enc.tree)
            /\ Len(enc.point_hits) = Len(enc.tree)
            /\ \A k \in 1..Len(enc.points) :
                  /\ k = enc.points[k].start + enc.points[k].depth + 1
                  /\ enc.points[k].depth = enc.tree[k].depth
                  /\ IsLeafRow(enc.points[k]) = ~enc.tree[k].group
                  /\ enc.point_hits[k].start = enc.points[k].start
                  /\ enc.point_hits[k].depth = enc.points[k].depth
            /\ subtree = enc.i..last
            /\ enc.sub_points = SubSeq(enc.points, enc.i, last)
            /\ enc.sub_point_hits = SubSeq(enc.point_hits, enc.i, last)

\* the inner group of a tree of five nodes: its two leaves come with it, the
\* leaf that follows the group does not
C30_Witness ==
    /\ enc.op = "iter_points" /\ enc.i = 2
    /\ enc.tree = << [depth |-> 0, group |-> TRUE], [depth |-> 1, group |-> TRUE],
                     [depth |-> 2, group |-> FALSE], [depth |-> 2, group |-> FALSE],
                     [depth |-> 1, group |-> FALSE] >>
    /\ Len(enc.sub_points) = 3
    /\ enc.sub_points[1] = enc.points[2] /\ enc.sub_points[3] = enc.points[4]
    /\ enc.sub_point_hits[3].start = 1 /\ enc.sub_point_hits[3].depth = 2

====
